---------------------------- MODULE Spec2Model ----------------------------
(***************************************************************************)
(* A model of knorpelsolve's modelling layer (src/mod.ts): the affine       *)
(* expression algebra (exp, add, sub, neg, mul, div, addMul), the template  *)
(* scanner / parser / evaluator (parse) and the Problem builder (variable,  *)
(* constraint, minimize, maximize, solve).                                  *)
(*                                                                          *)
(* JavaScript objects live in an explicit heap so that identity, aliasing   *)
(* and in-place mutation are observable:                                    *)
(*   heap.vars : the Variable objects          {name, min, max, ...}        *)
(*   heap.recs : the coefficient records       {factor, variable}           *)
(*   heap.exps : the Expression objects        {constant, linear.coeff}     *)
(* A Map is a sequence of entries in insertion order.                       *)
(*                                                                          *)
(* JavaScript numbers are modelled as exact rationals n/d extended with     *)
(* +Infinity (1/0), -Infinity (-1/0) and NaN (0/0); rounding of IEEE-754    *)
(* doubles and the sign of zero are not modelled.                           *)
(***************************************************************************)
EXTENDS Integers, Sequences, FiniteSets, TLC

VARIABLES
  heap,         \* the objects allocated so far
  variables,    \* problem(): const variables: Map<string, Variable>
  constraints,  \* problem(): const constraints: Constraint[]
  held,         \* the Expressions the caller holds a reference to
  last,         \* the last call: what was called, with what, and how it ended
  msg,          \* the last MessageProblem handed to io()
  calls,        \* number of calls made so far
  tpl           \* the template the caller has written and not yet passed

vars == <<heap, variables, constraints, held, last, msg, calls, tpl>>

(***************************************************************************)
(* Numbers                                                                 *)
(***************************************************************************)
Abs(x) == IF x < 0 THEN -x ELSE x

Sign(x) == IF x > 0 THEN 1 ELSE IF x < 0 THEN -1 ELSE 0

RECURSIVE GCD(_, _)
GCD(a, b) == IF b = 0 THEN a ELSE GCD(b, a % b)

\* the number n/d in lowest terms; d = 0 gives +Infinity, -Infinity or NaN
Num(n, d) ==
  IF d = 0 THEN [n |-> Sign(n), d |-> 0]
  ELSE LET g == GCD(Abs(n), Abs(d))
       IN  [n |-> Sign(d) * (n \div g), d |-> Abs(d) \div g]

Int2Num(n) == [n |-> n, d |-> 1]

NaN == [n |-> 0, d |-> 0]

IsNaN(x) == x.d = 0 /\ x.n = 0

IsInf(x) == x.d = 0 /\ x.n # 0

\* x + y
NumAdd(x, y) ==
  IF IsNaN(x) \/ IsNaN(y) THEN NaN
  ELSE IF IsInf(x) /\ IsInf(y) THEN (IF x.n = y.n THEN x ELSE NaN)
  ELSE IF IsInf(x) THEN x
  ELSE IF IsInf(y) THEN y
  ELSE Num(x.n * y.d + y.n * x.d, x.d * y.d)

\* x * y
NumMul(x, y) ==
  IF IsNaN(x) \/ IsNaN(y) THEN NaN
  ELSE IF IsInf(x) \/ IsInf(y)
       THEN [n |-> Sign(x.n) * Sign(y.n), d |-> 0]
  ELSE Num(x.n * y.n, x.d * y.d)

\* x - y
NumSub(x, y) == NumAdd(x, NumMul(Int2Num(-1), y))

\* x / y
NumDiv(x, y) ==
  IF IsNaN(x) \/ IsNaN(y) THEN NaN
  ELSE IF IsInf(y) THEN (IF IsInf(x) THEN NaN ELSE Int2Num(0))
  ELSE IF IsInf(x) THEN [n |-> x.n * (IF y.n < 0 THEN -1 ELSE 1), d |-> 0]
  ELSE Num(x.n * y.d, x.d * y.n)

(***************************************************************************)
(* Heap and operands                                                       *)
(***************************************************************************)
\* an operand of type number | Variable | Expression
NumberOp(x) == [t |-> "num", v |-> x]
VariableOp(vid) == [t |-> "var", v |-> vid]
ExpressionOp(eid) == [t |-> "exp", v |-> eid]

EmptyHeap == [vars |-> <<>>, recs |-> <<>>, exps |-> <<>>]

\* the keys of a coefficient Map, in insertion order
Keys(coeff) == [i \in 1..Len(coeff) |-> coeff[i].key]

\* Map.prototype.get: the position of key k in the Map, 0 when absent
MapGet(coeff, k) ==
  IF \E i \in 1..Len(coeff) : coeff[i].key = k
  THEN CHOOSE i \in 1..Len(coeff) : coeff[i].key = k
  ELSE 0

(***************************************************************************)
(* Algebra                                                                 *)
(***************************************************************************)
\* exp(constant) for a number, a Variable or an Expression; returns the heap
\* after the call and the Expression object e that is returned
exp(H, x) ==
  IF x.t = "num"
  THEN [h |-> [H EXCEPT !.exps = Append(@, [constant |-> x.v, coeff |-> <<>>])],
        e |-> Len(H.exps) + 1]
  ELSE IF x.t = "var"
  THEN [h |-> [H EXCEPT
                 !.recs = Append(@, [factor |-> Int2Num(1), variable |-> x.v]),
                 !.exps = Append(@, [constant |-> Int2Num(0),
                                     coeff |-> << [key |-> H.vars[x.v].name,
                                                   rec |-> Len(H.recs) + 1] >>])],
        e |-> Len(H.exps) + 1]
  ELSE [h |-> H, e |-> x.v]

\* a deep copy of the Map, Variables included (structuredClone): every
\* entry of the copy references a new Variable object
CloneCoeffDeep(H, eid) ==
  LET src == H.exps[eid].coeff
      n == Len(src)
      base == Len(H.recs)
      vbase == Len(H.vars)
  IN  [h |-> [H EXCEPT
                !.vars = @ \o [i \in 1..n |-> H.vars[H.recs[src[i].rec].variable]],
                !.recs = @ \o [i \in 1..n |->
                                 [factor |-> H.recs[src[i].rec].factor,
                                  variable |-> vbase + i]]],
       coeff |-> [i \in 1..n |-> [key |-> src[i].key, rec |-> base + i]]]

\* a copy of the Map that keeps the entries' records (new Map(coeff))
CloneCoeffShared(H, eid) == [h |-> H, coeff |-> H.exps[eid].coeff]

\* addMul, lines 137-141: a new Map with a new {factor, variable} record per
\* entry of expression, under the same key and in the same order
CloneCoeff(H, eid) ==
  LET src == H.exps[eid].coeff
      n == Len(src)
      base == Len(H.recs)
  IN  [h |-> [H EXCEPT
                !.recs = @ \o [i \in 1..n |->
                                 [factor |-> H.recs[src[i].rec].factor,
                                  variable |-> H.recs[src[i].rec].variable]]],
       coeff |-> [i \in 1..n |-> [key |-> src[i].key, rec |-> base + i]]]

\* one turn of the loop with "existing.factor = coefficient * factor": the
\* factor is assigned, not added to
MergeEntryAssigned(H, res, coefficient, rid) ==
  LET variable == H.recs[rid].variable
      factor == H.recs[rid].factor
      name == H.vars[variable].name
      at == MapGet(H.exps[res].coeff, name)
      H1 == IF at # 0 THEN H
            ELSE [H EXCEPT
                    !.recs = Append(@, [variable |-> variable,
                                        factor |-> Int2Num(0)]),
                    !.exps[res].coeff =
                       Append(@, [key |-> name, rec |-> Len(H.recs) + 1])]
      existing == IF at # 0 THEN H.exps[res].coeff[at].rec ELSE Len(H.recs) + 1
  IN  [H1 EXCEPT !.recs[existing].factor = NumMul(coefficient, factor)]

\* addMul, lines 142-149: one turn of the loop over other.linear.coeff.values()
MergeEntry(H, res, coefficient, rid) ==
  LET variable == H.recs[rid].variable
      factor == H.recs[rid].factor
      name == H.vars[variable].name
      at == MapGet(H.exps[res].coeff, name)
      H1 == IF at # 0 THEN H
            ELSE [H EXCEPT
                    !.recs = Append(@, [variable |-> variable,
                                        factor |-> Int2Num(0)]),
                    !.exps[res].coeff =
                       Append(@, [key |-> name, rec |-> Len(H.recs) + 1])]
      existing == IF at # 0 THEN H.exps[res].coeff[at].rec ELSE Len(H.recs) + 1
  IN  [H1 EXCEPT !.recs[existing].factor =
                    NumAdd(@, NumMul(coefficient, factor))]

RECURSIVE MergeLoop(_, _, _, _, _)
MergeLoop(H, res, coefficient, other, i) ==
  IF i > Len(H.exps[other].coeff) THEN H
  ELSE MergeLoop(MergeEntry(H, res, coefficient, H.exps[other].coeff[i].rec),
                 res, coefficient, other, i + 1)

\* a + (const * b)
addMul(H, expression, coefficient, other) ==
  LET r1 == exp(H, expression)
      r2 == exp(r1.h, other)
      cl == CloneCoeff(r2.h, r1.e)
      res == Len(cl.h.exps) + 1
      H1 == [cl.h EXCEPT !.exps = Append(@, [constant |-> cl.h.exps[r1.e].constant,
                                             coeff |-> cl.coeff])]
      H2 == MergeLoop(H1, res, coefficient, r2.e, 1)
  IN  [h |-> [H2 EXCEPT !.exps[res].constant =
                           NumAdd(@, NumMul(coefficient, H2.exps[r2.e].constant))],
       e |-> res]

\* a + b
add(H, left, right) == addMul(H, left, Int2Num(1), right)

\* b - a
subReversed(H, left, right) == addMul(H, right, Int2Num(-1), left)

\* a - b
sub(H, left, right) == addMul(H, left, Int2Num(-1), right)

\* -a
neg(H, expression) == addMul(H, NumberOp(Int2Num(0)), Int2Num(-1), expression)

\* const * a
mul(H, factor, expression) == addMul(H, NumberOp(Int2Num(0)), factor, expression)

\* a * const in place of a / const
divMultiplying(H, expression, factor) ==
  addMul(H, NumberOp(Int2Num(0)), factor, expression)

\* a / const
div(H, expression, factor) ==
  addMul(H, NumberOp(Int2Num(0)), NumDiv(Int2Num(1), factor), expression)


(***************************************************************************)
(* parse: scanning                                                         *)
(*                                                                         *)
(* A template is (strings, vars): strings are the literal pieces, each a   *)
(* sequence of one-character strings, and vars the placeholders between    *)
(* them, each a number, a Variable or an Expression.                       *)
(***************************************************************************)
WhiteSpace == {" ", "\t", "\n"}

Digit == {"0", "1", "2", "3", "4", "5", "6", "7", "8", "9"}

DigitValue(c) ==
  CASE c = "0" -> 0 [] c = "1" -> 1 [] c = "2" -> 2 [] c = "3" -> 3
    [] c = "4" -> 4 [] c = "5" -> 5 [] c = "6" -> 6 [] c = "7" -> 7
    [] c = "8" -> 8 [] c = "9" -> 9

OpChars == {"+", "-", "*", "/"}

Comparators == {<<"<", "=">>, <<"=", "=">>, <<">", "=">>}

\* the character at position i (from 1) of a piece, "" past its end
CharAt(piece, i) == IF i \in 1..Len(piece) THEN piece[i] ELSE ""

\* how many characters from position i on are in set
RECURSIVE Run(_, _, _)
Run(piece, i, set) ==
  IF i <= Len(piece) /\ piece[i] \in set THEN 1 + Run(piece, i + 1, set) ELSE 0

RECURSIVE DigitsValue(_)
DigitsValue(ds) ==
  IF ds = <<>> THEN 0
  ELSE 10 * DigitsValue(SubSeq(ds, 1, Len(ds) - 1)) + DigitValue(ds[Len(ds)])

RECURSIVE Pow10(_)
Pow10(k) == IF k = 0 THEN 1 ELSE 10 * Pow10(k - 1)

\* the length [+-]?\d+(?:\.\d+)? matches at position g, 0 if it does not
DecimalLen(piece, g) ==
  LET s == IF CharAt(piece, g) \in {"+", "-"} THEN 1 ELSE 0
      nd == Run(piece, g + s, Digit)
      nf == IF CharAt(piece, g + s + nd) = "."
            THEN Run(piece, g + s + nd + 1, Digit) ELSE 0
  IN  IF nd = 0 THEN 0 ELSE s + nd + (IF nf > 0 THEN 1 + nf ELSE 0)

\* the length the scanner's capture group matches at position g, 0 if none:
\*   (?:[+-]?\d+(?:\.\d+)?) | [+\-*/()] | (?:<=|==|>=) | (?:[\s\S]+$)
GroupLen(piece, g) ==
  IF DecimalLen(piece, g) > 0 THEN DecimalLen(piece, g)
  ELSE IF CharAt(piece, g) \in OpChars \cup {"(", ")"} THEN 1
  ELSE IF <<CharAt(piece, g), CharAt(piece, g + 1)>> \in Comparators THEN 2
  ELSE IF g <= Len(piece) THEN Len(piece) - g + 1
  ELSE 0

\* scanner.exec(piece) with the sticky scanner at lastIndex (from 0): the
\* leading \s* is greedy and gives characters back until the group matches.
\* The match whose group starts at position g and has length len:
ExecMatch(piece, lastIndex, g, len) ==
  [found |-> TRUE,
   index |-> lastIndex,
   value |-> SubSeq(piece, g, g + len - 1),
   lastIndex |-> g + len - 1 + Run(piece, g + len, WhiteSpace)]

\* cands: the numbers of blanks \s* may take so that the group matches
ExecGreedy(piece, lastIndex, cands) ==
  IF cands = {} THEN [found |-> FALSE]
  ELSE ExecMatch(piece, lastIndex,
                 lastIndex + 1 + (CHOOSE x \in cands : \A y \in cands : y <= x),
                 GroupLen(piece, lastIndex + 1
                                   + (CHOOSE x \in cands : \A y \in cands : y <= x)))

Exec(piece, lastIndex) ==
  ExecGreedy(piece, lastIndex,
             {w \in 0..Run(piece, lastIndex + 1, WhiteSpace) :
                GroupLen(piece, lastIndex + 1 + w) > 0})

Infinity == <<"I", "n", "f", "i", "n", "i", "t", "y">>

\* parseFloat(value), for text without an exponent part: leading white space
\* is skipped and the longest prefix that is a decimal literal is converted
ParseFloat(v) ==
  LET g == Run(v, 1, WhiteSpace) + 1
      s == IF CharAt(v, g) \in {"+", "-"} THEN 1 ELSE 0
      sign == IF CharAt(v, g) = "-" THEN -1 ELSE 1
      body == g + s
      ni == Run(v, body, Digit)
      nf == IF CharAt(v, body + ni) = "."
            THEN Run(v, body + ni + 1, Digit) ELSE 0
  IN  IF body + 7 <= Len(v) /\ SubSeq(v, body, body + 7) = Infinity
      THEN [n |-> sign, d |-> 0]
      ELSE IF ni + nf = 0 THEN NaN
      ELSE Num(sign * DigitsValue(SubSeq(v, body, body + ni - 1)
                                    \o SubSeq(v, body + ni + 1, body + ni + nf)),
               Pow10(nf))

Tok(kind, value) == [kind |-> kind, value |-> value]

\* st is the generator's state: the heap, the tokens yielded so far, needsOp
\* and the error thrown, if any
RECURSIVE ScanPiece(_, _, _)

\* default: the value is a number: an implicit "+" before every literal that
\* follows an operand, signed or not
ScanNumberAlways(st, value, num) ==
  [st EXCEPT !.needsOp = TRUE,
             !.toks = (IF st.needsOp THEN Append(@, Tok("op", "+")) ELSE @)
                        \o <<Tok("lit", num)>>]

\* default: the value is a number: the implicit "+", if any, and the literal
ScanNumber(st, value, num) ==
  [st EXCEPT !.needsOp = TRUE,
             !.toks = (IF st.needsOp /\ value[1] \in {"-", "+"}
                       THEN Append(@, Tok("op", "+"))
                       ELSE @) \o <<Tok("lit", num)>>]

\* default: bad input, throw error
ScanThrow(st, piece, token) ==
  [st EXCEPT !.err = <<[kind |-> "lexical", char |-> token.value[1],
                        index |-> token.index, piece |-> piece]>>]

\* one turn of the while loop, token being what scanner.exec returned
ScanToken(st, piece, token) ==
  IF ~token.found THEN st
  ELSE IF Len(token.value) = 1 /\ token.value[1] \in OpChars
  THEN ScanPiece([st EXCEPT !.needsOp = FALSE,
                            !.toks = Append(@, Tok("op", token.value[1]))],
                 piece, token.lastIndex)
  ELSE IF token.value = <<"(">>
  THEN ScanPiece([st EXCEPT !.needsOp = FALSE,
                            !.toks = Append(@, Tok("brac", "("))],
                 piece, token.lastIndex)
  ELSE IF token.value = <<")">>
  THEN ScanPiece([st EXCEPT !.needsOp = TRUE,
                            !.toks = Append(@, Tok("brac", ")"))],
                 piece, token.lastIndex)
  ELSE IF token.value \in Comparators
  THEN ScanPiece([st EXCEPT !.needsOp = FALSE,
                            !.toks = Append(@, Tok("cmp", token.value))],
                 piece, token.lastIndex)
  ELSE IF ~IsNaN(ParseFloat(token.value))
  THEN ScanPiece(ScanNumber(st, token.value, ParseFloat(token.value)),
                 piece, token.lastIndex)
  ELSE ScanThrow(st, piece, token)

\* the while loop over one piece
ScanPiece(st, piece, lastIndex) == ScanToken(st, piece, Exec(piece, lastIndex))

\* the digit that stands for k
DigitChar(k) == CHOOSE c \in Digit : DigitValue(c) = k

\* the decimal digits of a natural number
RECURSIVE NatText(_)
NatText(n) ==
  IF n < 10 THEN <<DigitChar(n)>>
  ELSE NatText(n \div 10) \o <<DigitChar(n % 10)>>

\* the digits after the point of r / d, r < d, at most k of them
RECURSIVE FractionText(_, _, _)
FractionText(r, d, k) ==
  IF r = 0 \/ k = 0 THEN <<>>
  ELSE <<DigitChar((10 * r) \div d)>> \o FractionText((10 * r) % d, d, k - 1)

\* str + exp for a number: the number as a string, for numbers below 1e21
\* that 17 digits write exactly
NumberText(x) ==
  IF IsNaN(x) THEN <<"N", "a", "N">>
  ELSE IF IsInf(x) THEN (IF x.n < 0 THEN <<"-">> ELSE <<>>) \o Infinity
  ELSE (IF x.n < 0 THEN <<"-">> ELSE <<>>)
         \o NatText(Abs(x.n) \div x.d)
         \o (IF Abs(x.n) % x.d = 0 THEN <<>>
             ELSE <<".">> \o FractionText(Abs(x.n) % x.d, x.d, 17))

\* a name as text: one symbol
NameText(name) == <<name>>

ExpMarker == <<"<", "e", "x", "p", ">">>

\* strings.raw.map(...).join(""), from the piece idx on
RECURSIVE ErrorInput(_, _, _, _)
ErrorInput(H, strings, vars_, idx) ==
  IF idx > Len(strings) THEN <<>>
  ELSE (IF idx > Len(vars_) THEN strings[idx]
        ELSE IF vars_[idx].t = "num"
        THEN strings[idx] \o NumberText(vars_[idx].v)
        ELSE IF vars_[idx].t = "var"
        THEN strings[idx] \o NameText(H.vars[vars_[idx].v].name)
        ELSE ExpMarker)
         \o ErrorInput(H, strings, vars_, idx + 1)

\* the message of the error thrown while scanning e.piece: the character
\* and the index, the line "in the part" if the input is not the piece,
\* and the input
ErrorMessage(e, input) ==
  [kind |-> e.kind, char |-> e.char, index |-> e.index, piece |-> e.piece,
   part |-> IF input # e.piece THEN <<e.piece>> ELSE <<>>,
   input |-> input]

\* the error of the generator with its message
ScanMessage(st, strings, vars_) ==
  [st EXCEPT !.err = <<ErrorMessage(st.err[1],
                                    ErrorInput(st.h, strings, vars_, 1))>>]

RECURSIVE ScanFrom(_, _, _, _)

\* yield { kind: "exp", value: exp(value) }, r being what exp returned
ScanExp(st, r) ==
  [st EXCEPT !.h = r.h, !.needsOp = TRUE, !.toks = Append(@, Tok("exp", r.e))]

\* the placeholder after a piece, told apart by its value: an Expression
\* without entries yields its constant as a literal
ScanVarByValue(st, value) ==
  IF value.t = "num"
  THEN [st EXCEPT !.needsOp = TRUE, !.toks = Append(@, Tok("lit", value.v))]
  ELSE IF value.t = "exp" /\ st.h.exps[value.v].coeff = <<>>
  THEN [st EXCEPT !.needsOp = TRUE,
                  !.toks = Append(@, Tok("lit", st.h.exps[value.v].constant))]
  ELSE ScanExp(st, exp(st.h, value))

\* the placeholder after a piece
ScanVar(st, value) ==
  IF value.t = "num"
  THEN [st EXCEPT !.needsOp = TRUE, !.toks = Append(@, Tok("lit", value.v))]
  ELSE ScanExp(st, exp(st.h, value))

\* the rest of one turn of the for loop, st being the state after the piece
ScanRest(st, strings, vars_, i) ==
  IF st.err # <<>> THEN ScanMessage(st, strings, vars_)
  ELSE IF i > Len(vars_) THEN ScanFrom(st, strings, vars_, i + 1)
  ELSE ScanFrom(ScanVar(st, vars_[i]), strings, vars_, i + 1)

\* the for loop over the pieces, each followed by its placeholder
ScanFrom(st, strings, vars_, i) ==
  IF i > Len(strings) THEN st
  ELSE ScanRest(ScanPiece(st, strings[i], 0), strings, vars_, i)

\* everything the generator yields, and the error it ends with, if any
scan(H, strings, vars_) ==
  ScanFrom([h |-> H, toks |-> <<>>, needsOp |-> FALSE, err |-> <<>>],
           strings, vars_, 1)

(***************************************************************************)
(* parse: parsing                                                          *)
(*                                                                         *)
(* S is the result of scan; pos is the number of tokens taken so far, so   *)
(* head is token pos + 1.  The generator is pulled one token ahead: taking *)
(* token pos + 1 pulls token pos + 2, and pulling past the last token      *)
(* yielded raises the scanner's error, if it ended with one.  A parsing    *)
(* function returns the node and the new pos, or the error thrown.         *)
(***************************************************************************)
Undefined == [kind |-> "undefined"]

Throw(e) == [ok |-> FALSE, err |-> e]

Error(kind) == [kind |-> kind]

Node(node, pos) == [ok |-> TRUE, node |-> node, pos |-> pos]

\* does pulling token k throw?
PullThrows(S, k) == k = Len(S.toks) + 1 /\ S.err # <<>>

peek(S, pos) == IF pos + 1 <= Len(S.toks) THEN S.toks[pos + 1] ELSE Undefined

next(S, pos) ==
  IF PullThrows(S, pos + 2) THEN Throw(S.err[1])
  ELSE [ok |-> TRUE, token |-> peek(S, pos), pos |-> pos + 1]

IsOp(token, ops) == token.kind = "op" /\ token.value \in ops

RECURSIVE primary(_, _), productLoop(_, _), sumLoop(_, _)

\* product: node = { kind: "bin", op, left: node, right }
productNode(S, left, opToken, right) ==
  IF ~right.ok THEN right
  ELSE productLoop(S, Node([kind |-> "bin", op |-> opToken.token.value,
                            left |-> left.node, right |-> right.node],
                           right.pos))

\* product: const right = primary()
productRight(S, left, opToken) ==
  IF ~opToken.ok THEN opToken
  ELSE productNode(S, left, opToken, primary(S, opToken.pos))

\* product: the while loop, left being the node so far
productLoop(S, left) ==
  IF ~left.ok THEN left
  ELSE IF ~IsOp(peek(S, left.pos), {"*", "/"}) THEN left
  ELSE productRight(S, left, next(S, left.pos))

product(S, pos) == productLoop(S, primary(S, pos))

\* sum: node = { kind: "bin", op, left: node, right }
sumNode(S, left, opToken, right) ==
  IF ~right.ok THEN right
  ELSE sumLoop(S, Node([kind |-> "bin", op |-> opToken.token.value,
                        left |-> left.node, right |-> right.node],
                       right.pos))

\* sum: const right = product()
sumRight(S, left, opToken) ==
  IF ~opToken.ok THEN opToken
  ELSE sumNode(S, left, opToken, product(S, opToken.pos))

\* sum: the while loop, left being the node so far
sumLoop(S, left) ==
  IF ~left.ok THEN left
  ELSE IF ~IsOp(peek(S, left.pos), {"+", "-"}) THEN left
  ELSE sumRight(S, left, next(S, left.pos))

sum(S, pos) == sumLoop(S, product(S, pos))

expression(S, pos) == sum(S, pos)

\* primary: const closing = next()
primaryClosing(node, closing) ==
  IF ~closing.ok THEN closing
  ELSE IF closing.token = Undefined
            \/ closing.token.kind # "brac"
            \/ closing.token.value # ")"
  THEN Throw(Error("Expected ')'"))
  ELSE Node(node.node, closing.pos)

\* primary: const node = expression()
primaryNode(S, node) ==
  IF ~node.ok THEN node ELSE primaryClosing(node, next(S, node.pos))

\* primary: const token = next()
primaryToken(S, token) ==
  IF ~token.ok THEN token
  ELSE IF token.token = Undefined
  THEN Throw(Error("Unexpected end of expression"))
  ELSE IF token.token.kind \in {"lit", "exp"}
  THEN Node(token.token, token.pos)
  ELSE IF token.token.kind = "brac" /\ token.token.value = "("
  THEN primaryNode(S, expression(S, token.pos))
  ELSE Throw(Error("Unexpected token"))

primary(S, pos) == primaryToken(S, next(S, pos))

\* constraint: const right = expression()
constraintRight(left, cmp, right) ==
  IF ~right.ok THEN right
  ELSE [ok |-> TRUE, left |-> left.node, cmp |-> cmp.token.value,
        right |-> right.node, pos |-> right.pos]

\* constraint: const cmp = next(); cmp.kind on an undefined cmp is a TypeError
constraintCmp(S, left, cmp) ==
  IF ~cmp.ok THEN cmp
  ELSE IF cmp.token = Undefined THEN Throw(Error("TypeError"))
  ELSE IF cmp.token.kind # "cmp"
  THEN Throw(Error("Expected one of '<=', '==', '>='"))
  ELSE constraintRight(left, cmp, expression(S, cmp.pos))

\* constraint: const left = expression()
constraintLeft(S, left) ==
  IF ~left.ok THEN left ELSE constraintCmp(S, left, next(S, left.pos))

constraint(S, pos) == constraintLeft(S, expression(S, pos))

(***************************************************************************)
(* parse: evaluating.  A value is a number or an Expression, as operands   *)
(* are.                                                                    *)
(***************************************************************************)
Value(H, v) == [ok |-> TRUE, h |-> H, v |-> v]

IsNumber(v) == v.t = "num"

Lift(r) == [ok |-> TRUE, h |-> r.h, v |-> ExpressionOp(r.e)]

\* evaluateBin without the throw statements: a product of two Expressions
\* scales the right one by the left one's constant, a quotient by an
\* Expression divides by its constant
evaluateBinUnchecked(H, op, left, right) ==
  CASE op = "+" ->
         IF IsNumber(left) /\ IsNumber(right)
         THEN Value(H, NumberOp(NumAdd(left.v, right.v)))
         ELSE Lift(add(H, left, right))
    [] op = "-" ->
         IF IsNumber(left) /\ IsNumber(right)
         THEN Value(H, NumberOp(NumSub(left.v, right.v)))
         ELSE Lift(sub(H, left, right))
    [] op = "*" ->
         IF IsNumber(left) /\ IsNumber(right)
         THEN Value(H, NumberOp(NumMul(left.v, right.v)))
         ELSE IF IsNumber(left) THEN Lift(mul(H, left.v, right))
         ELSE IF IsNumber(right) THEN Lift(mul(H, right.v, left))
         ELSE Lift(mul(H, H.exps[left.v].constant, right))
    [] op = "/" ->
         IF IsNumber(right)
         THEN (IF IsNumber(left)
               THEN Value(H, NumberOp(NumDiv(left.v, right.v)))
               ELSE Lift(div(H, left, right.v)))
         ELSE Lift(div(H, left, H.exps[right.v].constant))

\* case "bin", once both sides are evaluated
evaluateBin(H, op, left, right) ==
  CASE op = "+" ->
         IF IsNumber(left) /\ IsNumber(right)
         THEN Value(H, NumberOp(NumAdd(left.v, right.v)))
         ELSE Lift(add(H, left, right))
    [] op = "-" ->
         IF IsNumber(left) /\ IsNumber(right)
         THEN Value(H, NumberOp(NumSub(left.v, right.v)))
         ELSE Lift(sub(H, left, right))
    [] op = "*" ->
         IF IsNumber(left) /\ IsNumber(right)
         THEN Value(H, NumberOp(NumMul(left.v, right.v)))
         ELSE IF IsNumber(left) THEN Lift(mul(H, left.v, right))
         ELSE IF IsNumber(right) THEN Lift(mul(H, right.v, left))
         ELSE Throw(Error("Multiplication is only supported between an expression and a number."))
    [] op = "/" ->
         IF IsNumber(right)
         THEN (IF IsNumber(left)
               THEN Value(H, NumberOp(NumDiv(left.v, right.v)))
               ELSE Lift(div(H, left, right.v)))
         ELSE Throw(Error("Division is only supported by a number."))

RECURSIVE evaluate(_, _)

\* case "bin": const right = evaluate(ast.right), then the switch
evaluateRight(op, left, right) ==
  IF ~right.ok THEN right ELSE evaluateBin(right.h, op, left.v, right.v)

\* case "bin": const left = evaluate(ast.left)
evaluateLeft(ast, left) ==
  IF ~left.ok THEN left
  ELSE evaluateRight(ast.op, left, evaluate(left.h, ast.right))

evaluate(H, ast) ==
  IF ast.kind = "lit" THEN Value(H, NumberOp(ast.value))
  ELSE IF ast.kind = "exp" THEN Value(H, ExpressionOp(ast.value))
  ELSE IF ast.kind = "cmp" THEN Throw(Error("Cannot evaluate constraint"))
  ELSE evaluateLeft(ast, evaluate(H, ast.left))

\* exp(r), r being what evaluate returned or threw
expValue(r) == IF ~r.ok THEN r ELSE [ok |-> TRUE] @@ exp(r.h, r.v)

\* exp(evaluate(ast))
expEvaluate(H, ast) == expValue(evaluate(H, ast))

(***************************************************************************)
(* parse: executing.  The result is ok with the heap h after the call and  *)
(* the Expression e (or left, cmp, right), or not ok with the error err.   *)
(***************************************************************************)
\* type "expression", e being what expression() returned or threw
executeExpression(S, e) ==
  IF ~e.ok THEN e
  ELSE IF peek(S, e.pos) # Undefined
  THEN Throw(Error("Unexpected token at end of expression"))
  ELSE expEvaluate(S.h, e.node)

\* return [exp(evaluate(l)), cmp, exp(evaluate(r))]
executeBoth(c, l, r) ==
  IF ~r.ok THEN r
  ELSE [ok |-> TRUE, h |-> r.h, left |-> l.e, cmp |-> c.cmp, right |-> r.e]

executeRight(c, l) ==
  IF ~l.ok THEN l ELSE executeBoth(c, l, expEvaluate(l.h, c.right))

\* type "constraint", c being what constraint() returned or threw
executeConstraint(S, c) ==
  IF ~c.ok THEN c
  ELSE IF peek(S, c.pos) # Undefined
  THEN Throw(Error("Unexpected token at end of constraint"))
  ELSE executeRight(c, expEvaluate(S.h, c.left))

\* let head = tokens.next().value, then the body for options.type
execute(S, type) ==
  IF PullThrows(S, 1) THEN Throw(S.err[1])
  ELSE IF type = "expression" THEN executeExpression(S, expression(S, 0))
  ELSE executeConstraint(S, constraint(S, 0))

parse(strings, vars_, options, H) ==
  IF Len(vars_) + 1 # Len(strings) THEN Throw(Error("bad parse"))
  ELSE execute(scan(H, strings, vars_), options.type)

parseExpression(H, strings, vars_) ==
  parse(strings, vars_, [type |-> "expression"], H)

parseConstraint(H, strings, vars_) ==
  parse(strings, vars_, [type |-> "constraint"], H)

(***************************************************************************)
(* Bounds and input pools                                                  *)
(***************************************************************************)
\* calls made in one behaviour of the algebra specification
MaxAlgebraCalls == 2

\* the numbers passed as operands, and those passed as coefficient / factor
\* (all finite; 0 as the factor of div gives an infinite coefficient)
OperandNums == {Int2Num(2)}
Coefficients == {Int2Num(0), Int2Num(-3)}

\* an absent optional attribute (undefined) and a present one
None == <<>>
Some(x) == <<x>>

\* the Variable object { name, ...options, bounds, int, binary }
NewVariable(name, options) ==
  [name |-> name, min |-> options.min, max |-> options.max,
   integer |-> options.integer, initial |-> options.initial]

NoOptions == [min |-> None, max |-> None, integer |-> None, initial |-> None]

NoCall == [op |-> "none"]
NoMsg == [direction |-> "none"]
NoTemplate == [style |-> "none"]

\* what the caller can pass where number | Variable | Expression is accepted
Operands ==
  {NumberOp(n) : n \in OperandNums}
    \cup {VariableOp(v) : v \in 1..Len(heap.vars)}
    \cup {ExpressionOp(held[i]) : i \in 1..Len(held)}

(***************************************************************************)
(* The algebra specification: a caller with two Variables of one Problem   *)
(* combines numbers, Variables and the Expressions it got back.            *)
(***************************************************************************)
InitAlgebra ==
  /\ heap = [EmptyHeap EXCEPT !.vars = << NewVariable("a", NoOptions),
                                          NewVariable("b", NoOptions) >>]
  /\ variables = << [key |-> "a", v |-> 1], [key |-> "b", v |-> 2] >>
  /\ constraints = <<>>
  /\ held = <<>>
  /\ last = NoCall
  /\ msg = NoMsg
  /\ calls = 0
  /\ tpl = NoTemplate

\* the caller keeps the returned Expression; last records the call as the
\* addMul(expression, coefficient, other) it amounts to
Returned(op, base, coefficient, other, res) ==
  /\ heap' = res.h
  /\ held' = Append(held, res.e)
  /\ last' = [op |-> op, expression |-> base, coefficient |-> coefficient,
              other |-> other, pre |-> heap, e |-> res.e]
  /\ calls' = calls + 1
  /\ UNCHANGED <<variables, constraints, msg, tpl>>

Zero == NumberOp(Int2Num(0))

Exp ==
  /\ calls < MaxAlgebraCalls
  /\ \E x \in Operands :
       LET res == exp(heap, x)
       IN  /\ heap' = res.h
           /\ held' = Append(held, res.e)
           /\ last' = [op |-> "exp", x |-> x, pre |-> heap, e |-> res.e]
           /\ calls' = calls + 1
           /\ UNCHANGED <<variables, constraints, msg, tpl>>

Add ==
  /\ calls < MaxAlgebraCalls
  /\ \E l, r \in Operands :
       Returned("add", l, Int2Num(1), r, add(heap, l, r))

Sub ==
  /\ calls < MaxAlgebraCalls
  /\ \E l, r \in Operands :
       Returned("sub", l, Int2Num(-1), r, sub(heap, l, r))

Neg ==
  /\ calls < MaxAlgebraCalls
  /\ \E x \in Operands :
       Returned("neg", Zero, Int2Num(-1), x, neg(heap, x))

Mul ==
  /\ calls < MaxAlgebraCalls
  /\ \E k \in Coefficients, x \in Operands :
       Returned("mul", Zero, k, x, mul(heap, k, x))

Div ==
  /\ calls < MaxAlgebraCalls
  /\ \E k \in Coefficients, x \in Operands :
       Returned("div", Zero, NumDiv(Int2Num(1), k), x, div(heap, x, k))

AddMul ==
  /\ calls < MaxAlgebraCalls
  /\ \E k \in Coefficients, l, r \in Operands :
       Returned("addMul", l, k, r, addMul(heap, l, k, r))

NextAlgebra == Exp \/ Add \/ Sub \/ Neg \/ Mul \/ Div \/ AddMul

SpecAlgebra == InitAlgebra /\ [][NextAlgebra]_vars


(***************************************************************************)
(* Reading the heap                                                        *)
(***************************************************************************)
\* an Expression object as a value: its constant and its entries in order
Content(H, eid) ==
  [constant |-> H.exps[eid].constant,
   entries |-> [i \in 1..Len(H.exps[eid].coeff) |->
                  [key |-> H.exps[eid].coeff[i].key,
                   factor |-> H.recs[H.exps[eid].coeff[i].rec].factor,
                   variable |-> H.recs[H.exps[eid].coeff[i].rec].variable]]]

\* an operand as the value exp() gives it
View(H, x) ==
  IF x.t = "num" THEN [constant |-> x.v, entries |-> <<>>]
  ELSE IF x.t = "var"
  THEN [constant |-> Int2Num(0),
        entries |-> << [key |-> H.vars[x.v].name, factor |-> Int2Num(1),
                        variable |-> x.v] >>]
  ELSE Content(H, x.v)

Names(c) == {c.entries[i].key : i \in 1..Len(c.entries)}

HasName(c, name) == name \in Names(c)

EntryOf(c, name) ==
  c.entries[CHOOSE i \in 1..Len(c.entries) : c.entries[i].key = name]

\* the factor of a variable name, or 0 if absent
FactorOr0(c, name) ==
  IF HasName(c, name) THEN EntryOf(c, name).factor ELSE Int2Num(0)

\* the coefficient records an Expression object references
RecsOf(H, eid) == {H.exps[eid].coeff[i].rec : i \in 1..Len(H.exps[eid].coeff)}

AlgebraOps == {"add", "sub", "neg", "mul", "div", "addMul"}

(***************************************************************************)
(* C2: addMul(base, coefficient, other), for finite coefficients, returns  *)
(* an Expression whose constant is base.constant + coefficient *           *)
(* other.constant and whose Map has exactly one entry per variable name of *)
(* base or other and no other entry, with factor = (base factor or 0) +    *)
(* coefficient * (other factor or 0); each entry's variable is the very    *)
(* Variable object the operand referenced and its key is that variable's   *)
(* name.                                                                   *)
(***************************************************************************)
C2_AddMulResult ==
  last.op \in AlgebraOps =>
    LET b == View(last.pre, last.expression)
        o == View(last.pre, last.other)
        k == last.coefficient
        r == Content(heap, last.e)
    IN  /\ r.constant = NumAdd(b.constant, NumMul(k, o.constant))
        /\ Names(r) = Names(b) \cup Names(o)
        /\ \A i, j \in 1..Len(r.entries) :
             r.entries[i].key = r.entries[j].key => i = j
        /\ \A i \in 1..Len(r.entries) :
             LET en == r.entries[i]
             IN  /\ en.factor = NumAdd(FactorOr0(b, en.key),
                                       NumMul(k, FactorOr0(o, en.key)))
                 /\ en.variable = (IF HasName(b, en.key)
                                   THEN EntryOf(b, en.key).variable
                                   ELSE EntryOf(o, en.key).variable)
                 /\ en.variable \in 1..Len(last.pre.vars)
                 /\ en.key = heap.vars[en.variable].name

\* addMul(a, -3, e) was called with e an Expression over a and b
C2_Witness ==
  /\ last.op = "addMul"
  /\ last.expression.t = "var"
  /\ last.other.t = "exp"
  /\ last.coefficient = Int2Num(-3)
  /\ Len(View(last.pre, last.other).entries) = 2
  /\ Len(Content(heap, last.e).entries) = 2
  /\ Content(heap, last.e).entries[1].factor = Int2Num(-2)

(***************************************************************************)
(* C7: add, sub, neg, mul, div and addMul leave every object that existed  *)
(* before the call as it was (every Expression keeps its constant, its     *)
(* entries and their factors, also when it is passed as both operands;     *)
(* every Variable keeps its attributes), and the returned Expression       *)
(* shares no coefficient record with any other Expression.                 *)
(***************************************************************************)
C7_OperandsUntouched ==
  last.op \in AlgebraOps =>
    /\ SubSeq(heap.exps, 1, Len(last.pre.exps)) = last.pre.exps
    /\ SubSeq(heap.recs, 1, Len(last.pre.recs)) = last.pre.recs
    /\ heap.vars = last.pre.vars
    /\ last.e \notin 1..Len(last.pre.exps)
    /\ \A eid \in 1..Len(heap.exps) :
         eid # last.e => RecsOf(heap, eid) \cap RecsOf(heap, last.e) = {}

\* add(e, e) was called with e an Expression that has entries
C7_Witness ==
  /\ last.op = "add"
  /\ last.expression.t = "exp"
  /\ last.other = last.expression
  /\ Len(Content(last.pre, last.expression.v).entries) = 2
  /\ Content(heap, last.e).entries[1].factor = Int2Num(2)


(***************************************************************************)
(* Templates as the caller writes them.  A template is a text in which "$" *)
(* marks a placeholder (no literal text of the model contains "$"),        *)
(* together with the placeholders' values in order; the tag function       *)
(* receives the pieces of the text between the marks.                      *)
(***************************************************************************)
RECURSIVE Pieces(_)
Pieces(text) ==
  IF \A i \in 1..Len(text) : text[i] # "$" THEN <<text>>
  ELSE LET i == CHOOSE j \in 1..Len(text) :
                  text[j] = "$" /\ \A k \in 1..(j - 1) : text[k] # "$"
       IN  <<SubSeq(text, 1, i - 1)>> \o Pieces(SubSeq(text, i + 1, Len(text)))

\* binary operators in one arithmetic term of the parse specification
MaxOps == 2

\* what a term is built from: literals, and the two Variables as placeholders
Literals == { <<"2">> }
Placeholders == {VariableOp(1), VariableOp(2)}
Leaves ==
  {[kind |-> "lit", text |-> t] : t \in Literals}
    \cup {[kind |-> "ph", operand |-> x] : x \in Placeholders}
BinOps == {"+", "-", "*", "/"}

\* the shapes of the terms: ss[i] being the shapes with exactly i - 1 binary
\* operators, for every i up to Len(ss), those with exactly Len(ss)
Combine(ss) ==
  UNION {{[kind |-> "bin", left |-> l, right |-> r] :
            l \in ss[k], r \in ss[Len(ss) + 1 - k]} : k \in 1..Len(ss)}

RECURSIVE ShapesUpTo(_)
ShapesUpTo(n) ==
  IF n = 0 THEN << {[kind |-> "leaf"]} >>
  ELSE LET ss == ShapesUpTo(n - 1) IN Append(ss, Combine(ss))

Shapes(n) == ShapesUpTo(n)[n + 1]

RECURSIVE NumOps(_)
NumOps(t) == IF t.kind # "bin" THEN 0 ELSE 1 + NumOps(t.left) + NumOps(t.right)

\* the term of shape sh whose operators are ops[i], ops[i + 1], ... in prefix
\* order and whose leaves are lv[j], lv[j + 1], ... from left to right
RECURSIVE Fill(_, _, _, _, _)
Fill(sh, ops, lv, i, j) ==
  IF sh.kind = "leaf" THEN lv[j]
  ELSE [kind |-> "bin", op |-> ops[i],
        left |-> Fill(sh.left, ops, lv, i + 1, j),
        right |-> Fill(sh.right, ops, lv, i + 1 + NumOps(sh.left),
                       j + 1 + NumOps(sh.left))]

\* how tightly the operator at the root of a term binds
Prec(t) ==
  IF t.kind # "bin" THEN 3 ELSE IF t.op \in {"*", "/"} THEN 2 ELSE 1

\* tight: no blanks; spaced: blanks around binary operators; padded: spaced,
\* with a blank before and after the whole text
Styles == {"tight", "spaced", "padded"}

Paren(text) == <<"(">> \o text \o <<")">>

\* a term written with the usual rules and no parenthesis that they make
\* redundant: an operand is parenthesised when its operator binds less
\* tightly, and a right operand also when it binds equally tightly
RECURSIVE Written(_, _)
Written(t, style) ==
  IF t.kind = "lit" THEN [text |-> t.text, vars |-> <<>>]
  ELSE IF t.kind = "ph" THEN [text |-> <<"$">>, vars |-> <<t.operand>>]
  ELSE LET l == Written(t.left, style)
           r == Written(t.right, style)
           lt == IF Prec(t.left) < Prec(t) THEN Paren(l.text) ELSE l.text
           rt == IF Prec(t.right) <= Prec(t) THEN Paren(r.text) ELSE r.text
           o == IF style = "tight" THEN <<t.op>> ELSE <<" ", t.op, " ">>
       IN  [text |-> lt \o o \o rt, vars |-> l.vars \o r.vars]

Lit(text) == [kind |-> "lit", text |-> text]
Ph(x) == [kind |-> "ph", operand |-> x]
Bin(op, l, r) == [kind |-> "bin", op |-> op, left |-> l, right |-> r]

\* 2 * a + 3 - b and (a + 1) / 2
Example1 ==
  Bin("-", Bin("+", Bin("*", Lit(<<"2">>), Ph(VariableOp(1))), Lit(<<"3">>)),
      Ph(VariableOp(2)))
Example2 == Bin("/", Bin("+", Ph(VariableOp(1)), Lit(<<"1">>)), Lit(<<"2">>))
Examples == {Example1, Example2}

Template(t, style) ==
  LET w == Written(t, style)
  IN  [tree |-> t, style |-> style,
       text |-> IF style = "padded" THEN <<" ">> \o w.text \o <<" ">>
                ELSE w.text,
       vars |-> w.vars]

(***************************************************************************)
(* The parse specification: the caller writes one arithmetic template over *)
(* the Variables a and b and passes it to exp`...`.                        *)
(***************************************************************************)
InitParse ==
  /\ heap = [EmptyHeap EXCEPT !.vars = << NewVariable("a", NoOptions),
                                          NewVariable("b", NoOptions) >>]
  /\ variables = << [key |-> "a", v |-> 1], [key |-> "b", v |-> 2] >>
  /\ constraints = <<>>
  /\ held = <<>>
  /\ last = NoCall
  /\ msg = NoMsg
  /\ calls = 0
  /\ \/ \E n \in 0..MaxOps :
       \E sh \in Shapes(n), ops \in [1..n -> BinOps],
          lv \in [1..(n + 1) -> Leaves], style \in Styles :
         tpl = Template(Fill(sh, ops, lv, 1, 1), style)
     \/ \E t \in Examples, style \in Styles : tpl = Template(t, style)

\* exp`...`: the objects allocated by a call that throws are unreachable, so
\* the heap is as before
ExpTemplate ==
  /\ tpl # NoTemplate
  /\ \E res \in {parseExpression(heap, Pieces(tpl.text), tpl.vars)} :
       /\ last' = [op |-> "template", tpl |-> tpl, pre |-> heap, res |-> res]
       /\ heap' = IF res.ok THEN res.h ELSE heap
       /\ held' = IF res.ok THEN Append(held, res.e) ELSE held
  /\ tpl' = NoTemplate
  /\ calls' = calls + 1
  /\ UNCHANGED <<variables, constraints, msg>>

NextParse == ExpTemplate

SpecParse == InitParse /\ [][NextParse]_vars

(***************************************************************************)
(* Ordinary arithmetic on affine forms, the yardstick for templates.  A    *)
(* value is a bare number (num) or an affine form c + sum of f[n] * n over *)
(* the variable names n in DOMAIN f; lin is FALSE, with the offending      *)
(* operator in err, once a product of two forms or a quotient by a form    *)
(* was met (operands are taken left before right).                         *)
(***************************************************************************)
NonLinear(op) == [lin |-> FALSE, err |-> op]

Coef(v, n) == IF n \in DOMAIN v.f THEN v.f[n] ELSE Int2Num(0)

OperandValue(H, x) ==
  LET c == View(H, x)
  IN  [lin |-> TRUE, num |-> x.t = "num", c |-> c.constant,
       f |-> [n \in Names(c) |-> EntryOf(c, n).factor]]

Combined(op, l, r) ==
  CASE op = "+" ->
         [lin |-> TRUE, num |-> l.num /\ r.num, c |-> NumAdd(l.c, r.c),
          f |-> [n \in DOMAIN l.f \cup DOMAIN r.f |->
                   NumAdd(Coef(l, n), Coef(r, n))]]
    [] op = "-" ->
         [lin |-> TRUE, num |-> l.num /\ r.num, c |-> NumSub(l.c, r.c),
          f |-> [n \in DOMAIN l.f \cup DOMAIN r.f |->
                   NumSub(Coef(l, n), Coef(r, n))]]
    [] op = "*" ->
         IF l.num
         THEN [lin |-> TRUE, num |-> r.num, c |-> NumMul(l.c, r.c),
               f |-> [n \in DOMAIN r.f |-> NumMul(l.c, r.f[n])]]
         ELSE IF r.num
         THEN [lin |-> TRUE, num |-> FALSE, c |-> NumMul(l.c, r.c),
               f |-> [n \in DOMAIN l.f |-> NumMul(l.f[n], r.c)]]
         ELSE NonLinear("*")
    [] op = "/" ->
         IF r.num
         THEN [lin |-> TRUE, num |-> l.num, c |-> NumDiv(l.c, r.c),
               f |-> [n \in DOMAIN l.f |-> NumDiv(l.f[n], r.c)]]
         ELSE NonLinear("/")

RECURSIVE TreeValue(_, _)
TreeValue(H, t) ==
  IF t.kind = "lit" THEN OperandValue(H, NumberOp(ParseFloat(t.text)))
  ELSE IF t.kind = "ph" THEN OperandValue(H, t.operand)
  ELSE LET l == TreeValue(H, t.left)
       IN  IF ~l.lin THEN l
           ELSE LET r == TreeValue(H, t.right)
                IN  IF ~r.lin THEN r ELSE Combined(t.op, l, r)

\* the Expression object eid of heap H has the value v: same constant, same
\* variable names, same factor per name
Equivalent(H, eid, v) ==
  LET c == Content(H, eid)
  IN  /\ c.constant = v.c
      /\ Names(c) = DOMAIN v.f
      /\ \A i \in 1..Len(c.entries) : c.entries[i].factor = v.f[c.entries[i].key]

\* the message of the error evaluate throws at operator op
LinearityMessage(op) ==
  IF op = "*"
  THEN "Multiplication is only supported between an expression and a number."
  ELSE "Division is only supported by a number."

\* the value of the Expression object eid of heap H
ExpressionValue(H, eid) == OperandValue(H, ExpressionOp(eid))

\* sub(add(mul(2, a), 3), b) and div(add(a, 1), 2), called on heap H
Example1ByAlgebra(H) ==
  LET m == mul(H, Int2Num(2), VariableOp(1))
      p == add(m.h, ExpressionOp(m.e), NumberOp(Int2Num(3)))
      d == sub(p.h, ExpressionOp(p.e), VariableOp(2))
  IN  ExpressionValue(d.h, d.e)

Example2ByAlgebra(H) ==
  LET p == add(H, VariableOp(1), NumberOp(Int2Num(1)))
      q == div(p.h, ExpressionOp(p.e), Int2Num(2))
  IN  ExpressionValue(q.h, q.e)

\* a piece of the template's text that is not empty and all white space
BlankPiece(t) ==
  \E i \in 1..Len(Pieces(t.text)) :
    LET piece == Pieces(t.text)[i]
    IN  piece # <<>> /\ \A j \in 1..Len(piece) : piece[j] \in WhiteSpace

(***************************************************************************)
(* C3: for every well-formed template built from numeric literals,         *)
(* placeholders, + - * / and parentheses whose products and quotients are  *)
(* linear, the exp tag returns an Expression with the constant and the     *)
(* factor per variable name that ordinary arithmetic gives the text:       *)
(* products and quotients before sums and differences, equal precedence    *)
(* from the left, parentheses first.  The template 2 * a + 3 - b gives     *)
(* what sub(add(mul(2, a), 3), b) gives, and the template (a + 1) / 2 what *)
(* div(add(a, 1), 2) gives.                                                *)
(***************************************************************************)
C3_TemplateIsArithmetic ==
  last.op = "template" =>
    LET v == TreeValue(last.pre, last.tpl.tree)
    IN  /\ v.lin => last.res.ok /\ Equivalent(heap, last.res.e, v)
        /\ last.tpl.tree = Example1 =>
             /\ last.res.ok
             /\ Equivalent(heap, last.res.e, Example1ByAlgebra(last.pre))
        /\ last.tpl.tree = Example2 =>
             /\ last.res.ok
             /\ Equivalent(heap, last.res.e, Example2ByAlgebra(last.pre))

\* what the exp tag does meet of C3: the same, for the templates none of
\* whose pieces is blank
ArithmeticUnlessBlankPiece ==
  last.op = "template" /\ ~BlankPiece(last.tpl) => C3_TemplateIsArithmetic

\* does term t hold a product of exactly one bare number and one form?
RECURSIVE HasScaling(_, _)
HasScaling(H, t) ==
  /\ t.kind = "bin"
  /\ \/ t.op = "*" /\ TreeValue(H, t.left).num # TreeValue(H, t.right).num
     \/ HasScaling(H, t.left)
     \/ HasScaling(H, t.right)

(***************************************************************************)
(* C4: a template that holds, anywhere, a product of two operands neither  *)
(* of which is a bare number, or a quotient whose divisor is not a bare    *)
(* number, fails, and unless the scanner rejected its text fails with the  *)
(* error of the first such operator; a template all of whose products and  *)
(* quotients are linear and that holds a product of exactly one bare       *)
(* number succeeds, unless the scanner rejected its text, with the value   *)
(* the product scaled by the number gives, and number * x and x * number   *)
(* both give what mul(number, x) gives.                                    *)
(***************************************************************************)
C4_Linearity ==
  last.op = "template" =>
    LET t == last.tpl.tree
        v == TreeValue(last.pre, t)
        r == last.res
    IN  /\ ~v.lin =>
             /\ ~r.ok
             /\ r.err.kind # "lexical" => r.err.kind = LinearityMessage(v.err)
        /\ v.lin /\ HasScaling(last.pre, t) =>
             \/ ~r.ok /\ r.err.kind = "lexical"
             \/ r.ok /\ Equivalent(heap, r.e, v)
        /\ r.ok /\ t.kind = "bin" /\ t.op = "*" =>
             /\ t.left.kind = "lit" /\ t.right.kind = "ph" =>
                  LET m == mul(last.pre, ParseFloat(t.left.text), t.right.operand)
                  IN  Content(heap, r.e) = Content(m.h, m.e)
             /\ t.left.kind = "ph" /\ t.right.kind = "lit" =>
                  LET m == mul(last.pre, ParseFloat(t.right.text), t.left.operand)
                  IN  Content(heap, r.e) = Content(m.h, m.e)

\* 2 + a * b was passed and the multiplication error thrown
C4_Witness ==
  /\ last.op = "template"
  /\ last.tpl.tree = Bin("+", Lit(<<"2">>),
                         Bin("*", Ph(VariableOp(1)), Ph(VariableOp(2))))
  /\ ~last.res.ok
  /\ last.res.err.kind = LinearityMessage("*")

(***************************************************************************)
(* problem(): the Problem object.  The registry `variables` is a Map from  *)
(* name to Variable in insertion order, `constraints` the array of the     *)
(* Constraint objects { expression, isEquality }.  The operators below     *)
(* take the Problem P = [heap, variables, constraints] a method is called  *)
(* on and give what the call returns or throws and the Problem after it.   *)
(* Objects that only a finished call could reach are left out of the heap  *)
(* when the call returns no object: after a throw, and after a solve.      *)
(***************************************************************************)
LE == <<"<", "=">>
EQ == <<"=", "=">>
GE == <<">", "=">>

Threw(P, e) == [threw |-> TRUE, err |-> e, P |-> P]

\* variables.has(name)
Has(vars_, name) == \E i \in 1..Len(vars_) : vars_[i].key = name

\* variables.set(name, v) with a key that may be present: the entry keeps
\* its place and gets the new value
MapSet(m, k, v) ==
  IF \E i \in 1..Len(m) : m[i].key = k
  THEN [i \in 1..Len(m) |-> IF m[i].key = k THEN [key |-> k, v |-> v] ELSE m[i]]
  ELSE Append(m, [key |-> k, v |-> v])

\* variable(name, options) without the test for a registered name
Problem_variableUnguarded(P, name, options) ==
  [threw |-> FALSE, v |-> Len(P.heap.vars) + 1,
   P |-> [P EXCEPT !.heap.vars = Append(@, NewVariable(name, options)),
                   !.variables = MapSet(@, name, Len(P.heap.vars) + 1)]]

Problem_variable(P, name, options) ==
  IF Has(P.variables, name) THEN Threw(P, Error("variable exists"))
  ELSE Problem_variableUnguarded(P, name, options)

\* bounds that leaves v as it is and sets min and max on a copy of it
boundsOnCopy(H, v, min, max) ==
  [H EXCEPT !.vars = Append(@, [H.vars[v] EXCEPT !.min = Some(min),
                                                 !.max = Some(max)])]

\* the builder methods of Variable v; each returns v
bounds(H, v, min, max) ==
  [H EXCEPT !.vars[v].min = Some(min), !.vars[v].max = Some(max)]

int(H, v) == [H EXCEPT !.vars[v].integer = Some(TRUE)]

binary(H, v) == int(bounds(H, v, Int2Num(0), Int2Num(1)), v)

\* constraints.push(cons) with the expression sub returned as r
constraintPush(P, cmp, r) ==
  [threw |-> FALSE,
   cons |-> [expression |-> r.e, isEquality |-> cmp = EQ],
   P |-> [P EXCEPT !.heap = r.h,
                   !.constraints =
                     Append(@, [expression |-> r.e, isEquality |-> cmp = EQ])]]

\* a constraint always stored as left - right
constraintUnflipped(P, left, cmp, right) ==
  constraintPush(P, cmp, sub(P.heap, left, right))

constraintNormalized(P, left, cmp, right) ==
  constraintPush(P, cmp, IF cmp = GE THEN sub(P.heap, right, left)
                         ELSE sub(P.heap, left, right))

\* a failing template leaves the constraint 0 <= 0 behind
constraintParsedPartial(P, r) ==
  IF ~r.ok
  THEN [threw |-> TRUE, err |-> r.err,
        P |-> constraintPush(P, LE, exp(P.heap, NumberOp(Int2Num(0)))).P]
  ELSE constraintNormalized([P EXCEPT !.heap = r.h], ExpressionOp(r.left),
                            r.cmp, ExpressionOp(r.right))

\* r is what parse returned or threw
constraintParsed(P, r) ==
  IF ~r.ok THEN Threw(P, r.err)
  ELSE constraintNormalized([P EXCEPT !.heap = r.h], ExpressionOp(r.left),
                            r.cmp, ExpressionOp(r.right))

\* constraint(left, cmp, right) and constraint`...`: c.form tells which of
\* the two the arguments are
Problem_constraint(P, c) ==
  IF c.form = "explicit" THEN constraintNormalized(P, c.left, c.cmp, c.right)
  ELSE constraintParsed(P, parseConstraint(P.heap, c.strings, c.vars))

(***************************************************************************)
(* solve: the message for the backend and the Solution from its answer.    *)
(* The backend is not part of the program: io gets an outcome, which is a  *)
(* null pointer or an answer { status, values }.                           *)
(***************************************************************************)
Null == [null |-> TRUE]

\* x ?? null and x ?? false
OrNull(x) == IF x = None THEN Null ELSE x[1]
OrFalse(x) == IF x = None THEN FALSE ELSE x[1]

MessageVariable(v) ==
  [name |-> v.name, min |-> OrNull(v.min), max |-> OrNull(v.max),
   initial |-> OrNull(v.initial), integer |-> OrFalse(v.integer)]

\* the list of the variables, last registered first
MessageVariablesReversed(H, vars_) ==
  [i \in 1..Len(vars_) |-> MessageVariable(H.vars[vars_[Len(vars_) + 1 - i].v])]

\* vars.values().map(...).toArray()
MessageVariables(H, vars_) ==
  [i \in 1..Len(vars_) |-> MessageVariable(H.vars[vars_[i].v])]

\* coeff.values().map((v) => ({ name: v.variable.name, factor: v.factor }))
CoeffVars(H, eid) ==
  [i \in 1..Len(H.exps[eid].coeff) |->
     [name |-> H.vars[H.recs[H.exps[eid].coeff[i].rec].variable].name,
      factor |-> H.recs[H.exps[eid].coeff[i].rec].factor]]

\* conss.filter((c) => !c.isEquality) and conss.filter((c) => c.isEquality)
Unfiltered(conss) == conss
Inequalities(conss) == SelectSeq(conss, LAMBDA c : ~c.isEquality)
Equalities(conss) == SelectSeq(conss, LAMBDA c : c.isEquality)

TermLists(H, conss) ==
  [i \in 1..Len(conss) |-> CoeffVars(H, conss[i].expression)]
Offsets(H, conss) ==
  [i \in 1..Len(conss) |-> H.exps[conss[i].expression].constant]

MessageProblem(H, direction, vars_, obj, conss, options) ==
  [direction |-> direction,
   variables |-> MessageVariables(H, vars_),
   objective |-> CoeffVars(H, obj),
   objective_offset |-> H.exps[obj].constant,
   constraints |-> TermLists(H, Inequalities(conss)),
   constraint_offsets |-> Offsets(H, Inequalities(conss)),
   equalities |-> TermLists(H, Equalities(conss)),
   equalities_offsets |-> Offsets(H, Equalities(conss)),
   verbose |-> options.verbose]

\* new Map(entries): a later entry with a key already present replaces the
\* value of the earlier one
RECURSIVE NewMap(_)
NewMap(entries) ==
  IF entries = <<>> THEN <<>>
  ELSE MapSet(NewMap(SubSeq(entries, 1, Len(entries) - 1)),
              entries[Len(entries)].key, entries[Len(entries)].v)

\* solution.values[i], undefined past the end of the array
ValueAt(values, i) == IF i \in 1..Len(values) THEN Some(values[i]) ELSE None

\* io and the Solution built from what it returns, for the message m
solved(m, outcome) ==
  IF outcome.ptr = "null"
  THEN [threw |-> TRUE, err |-> Error("rcv bad buffer"), sent |-> TRUE,
        msg |-> m]
  ELSE [threw |-> FALSE, sent |-> TRUE, msg |-> m,
        solution |->
          [status |-> outcome.res.status,
           values |-> NewMap([i \in 1..Len(m.variables) |->
                                [key |-> m.variables[i].name,
                                 v |-> ValueAt(outcome.res.values, i)]])]]

\* the options of minimize / maximize: vars[0] when it is an object that
\* has the property verbose (c.options is vars[0] of the explicit form; a
\* placeholder is a number, a Variable or an Expression and has none)
SolveOptions(c) ==
  [verbose |-> IF c.form = "explicit" /\ c.options # None
               THEN OrFalse(c.options[1].verbose) ELSE FALSE]

Given(r) == [ok |-> TRUE, h |-> r.h, e |-> r.e]

\* the objective of minimize / maximize as an Expression: exp`...` of the
\* template form, which may throw, and exp(objective) of either form
Problem_objective(P, c) ==
  IF c.form = "template" THEN parseExpression(P.heap, c.strings, c.vars)
  ELSE Given(exp(P.heap, c.objective))

\* the message solve builds for the objective ob
Problem_message(P, direction, c, ob) ==
  MessageProblem(ob.h, direction, P.variables, ob.e, P.constraints,
                 SolveOptions(c))

(***************************************************************************)
(* The calls a caller makes on one Problem                                 *)
(***************************************************************************)
\* calls made in one behaviour of the specification Spec
MaxCalls == 4

\* the options of the example script for a and b, and others
OptionsA == [NoOptions EXCEPT !.max = Some(Int2Num(1))]
OptionsB == [NoOptions EXCEPT !.min = Some(Int2Num(2)), !.max = Some(Int2Num(4))]
OptionsC == [NoOptions EXCEPT !.integer = Some(TRUE), !.initial = Some(Int2Num(3))]

VariableCalls ==
  {[name |-> "a", options |-> OptionsA], [name |-> "b", options |-> OptionsB],
   [name |-> "a", options |-> OptionsC]}

BoundsArgs == {[min |-> Int2Num(-5), max |-> Int2Num(5)]}

\* the placeholders: the Variable registered first and the one registered next
First == Ph(VariableOp(1))
Second == Ph(VariableOp(2))

\* a comparator as written between the two sides
Between(cmp, style) == IF style = "tight" THEN cmp ELSE <<" ">> \o cmp \o <<" ">>

\* the constraint template  l cmp r
Comparison(l, cmp, r, style) ==
  [form |-> "template", left |-> l, cmp |-> cmp, right |-> r,
   strings |-> Pieces(Written(l, style).text \o Between(cmp, style)
                        \o Written(r, style).text),
   vars |-> Written(l, style).vars \o Written(r, style).vars]

\* the objective template of term t
Objective(t, style) ==
  [form |-> "template", tree |-> t, strings |-> Pieces(Written(t, style).text),
   vars |-> Written(t, style).vars]

\* a template given by its text
Raw(text, vars_, fails) ==
  [form |-> "template", strings |-> Pieces(text), vars |-> vars_,
   fails |-> fails]

\* a + 2 <= b and 1 + a >= 4 - b of the example script, and 2 * a against 4
Sides1 == << Bin("+", First, Lit(<<"2">>)), Second >>
Sides2 == << Bin("+", Lit(<<"1">>), First), Bin("-", Lit(<<"4">>), Second) >>
Sides3 == << Bin("*", Lit(<<"2">>), First), Lit(<<"4">>) >>

ConstraintTemplates ==
  {Comparison(s[1], cmp, s[2], "spaced") :
     s \in {Sides1, Sides2, Sides3}, cmp \in Comparators}

\* templates that parse rejects: an unknown character, a parenthesis left
\* open, no comparator, two comparators, a product of two Variables, a
\* quotient by a Variable
FailingConstraints ==
  {Raw(<<"$", " ", "?", " ", "2", " ", "<", "=", " ", "3">>, <<VariableOp(1)>>, "lexical"),
   Raw(<<"(", "$", " ", "+", " ", "2", " ", "<", "=", " ", "3">>, <<VariableOp(1)>>, "syntax"),
   Raw(<<"$", " ", "+", " ", "2">>, <<VariableOp(1)>>, "missing comparator"),
   Raw(<<"$", " ", "<", "=", " ", "2", " ", "<", "=", " ", "3">>, <<VariableOp(1)>>, "extra comparator"),
   Raw(<<"$", " ", "*", " ", "$", " ", "<", "=", " ", "2">>, <<VariableOp(1), VariableOp(1)>>, "multiplication"),
   Raw(<<"2", " ", "/", " ", "$", " ", "<", "=", " ", "3">>, <<VariableOp(1)>>, "division")}

\* 10 * (a - b / 5) - b of the example script
ExampleObjective ==
  Bin("-", Bin("*", Lit(<<"1", "0">>),
               Bin("-", First, Bin("/", Second, Lit(<<"5">>)))),
      Second)

ObjectiveTemplates == {Objective(ExampleObjective, "spaced")}

FailingObjectives ==
  {Raw(<<"$", " ", "?", " ", "2">>, <<VariableOp(1)>>, "lexical"),
   Raw(<<"$", " ", "*", " ", "$">>, <<VariableOp(1), VariableOp(1)>>, "multiplication")}

\* the placeholders of template call c are Variables of this Problem
Usable(c) == \A i \in 1..Len(c.vars) : c.vars[i].v \in 1..Len(heap.vars)

\* what the caller passes as a side of constraint(left, cmp, right): a
\* number, the Variable registered last, the expression of the Constraint
\* stored last
ProblemOperands ==
  {NumberOp(Int2Num(2))}
    \cup {VariableOp(v) : v \in {Len(heap.vars)} \ {0}}
    \cup {ExpressionOp(constraints[i].expression) :
            i \in {Len(constraints)} \ {0}}

\* what the caller passes as the objective of minimize(objective, options?)
ExplicitObjectives ==
  {[form |-> "explicit", objective |-> VariableOp(v), options |-> None] :
     v \in {Len(heap.vars)} \ {0}}
    \cup {[form |-> "explicit",
           objective |-> ExpressionOp(constraints[i].expression),
           options |-> Some([verbose |-> Some(TRUE)])] :
            i \in {Len(constraints)} \ {0}}

\* what the backend may do with a message about n variables: return no
\* buffer, answer with a value per variable, answer without values
Outcomes(n) ==
  {[ptr |-> "null"],
   [ptr |-> "buffer",
    res |-> [status |-> "optimal", values |-> [i \in 1..n |-> Int2Num(i)]]],
   [ptr |-> "buffer", res |-> [status |-> "infeasible", values |-> <<>>]]}

NoOutcome == [ptr |-> "none"]

Problem == [heap |-> heap, variables |-> variables, constraints |-> constraints]

\* the Problem and the last message before a call
Pre ==
  [heap |-> heap, variables |-> variables, constraints |-> constraints,
   msg |-> msg]

Init ==
  /\ heap = EmptyHeap
  /\ variables = <<>>
  /\ constraints = <<>>
  /\ held = <<>>
  /\ last = NoCall
  /\ msg = NoMsg
  /\ calls = 0
  /\ tpl = NoTemplate

\* what a call returned or threw, without the Problem and the message
Outcome(r) == [x \in DOMAIN r \ {"P", "msg"} |-> r[x]]

\* a call of variable or constraint that gave r
Called(op, c, r) ==
  /\ heap' = r.P.heap
  /\ variables' = r.P.variables
  /\ constraints' = r.P.constraints
  /\ last' = [op |-> op, call |-> c, pre |-> Pre, res |-> Outcome(r)]
  /\ calls' = calls + 1
  /\ UNCHANGED <<held, msg, tpl>>

\* a builder call on Variable v that left the heap H
Built(op, c, H) ==
  /\ heap' = H
  /\ last' = [op |-> op, call |-> c, pre |-> Pre,
              res |-> [threw |-> FALSE, v |-> c.v]]
  /\ calls' = calls + 1
  /\ UNCHANGED <<variables, constraints, held, msg, tpl>>

\* a call of minimize or maximize that gave r when the backend did o
Solved(op, c, o, r) ==
  /\ msg' = IF r.sent THEN r.msg ELSE msg
  /\ last' = [op |-> op, call |-> c, pre |-> Pre, res |-> Outcome(r),
              outcome |-> o]
  /\ calls' = calls + 1
  /\ UNCHANGED <<heap, variables, constraints, held, tpl>>

\* minimize / maximize with the objective ob: the call throws what exp threw,
\* or hands the message to io, where the backend does one of `outcomes`
Solve(op, direction, c, ob, outcomes) ==
  IF ~ob.ok
  THEN Solved(op, c, NoOutcome, [threw |-> TRUE, err |-> ob.err, sent |-> FALSE])
  ELSE \E m \in {Problem_message(Problem, direction, c, ob)} :
         \E o \in outcomes : Solved(op, c, o, solved(m, o))

Variable ==
  /\ calls < MaxCalls
  /\ \E c \in VariableCalls :
       \E r \in {Problem_variable(Problem, c.name, c.options)} :
         Called("variable", c, r)

Bounds ==
  /\ calls < MaxCalls
  /\ \E v \in 1..Len(heap.vars), b \in BoundsArgs :
       Built("bounds", [v |-> v, min |-> b.min, max |-> b.max],
             bounds(heap, v, b.min, b.max))

Integer ==
  /\ calls < MaxCalls
  /\ \E v \in 1..Len(heap.vars) : Built("int", [v |-> v], int(heap, v))

Binary ==
  /\ calls < MaxCalls
  /\ \E v \in 1..Len(heap.vars) : Built("binary", [v |-> v], binary(heap, v))

ConstraintExplicit ==
  /\ calls < MaxCalls
  /\ \E l \in ProblemOperands, cmp \in Comparators, r \in ProblemOperands :
       \E c \in {[form |-> "explicit", left |-> l, cmp |-> cmp, right |-> r]} :
         \E res \in {Problem_constraint(Problem, c)} :
           Called("constraint", c, res)

ConstraintTemplate ==
  /\ calls < MaxCalls
  /\ \E c \in ConstraintTemplates \cup FailingConstraints :
       /\ Usable(c)
       /\ \E r \in {Problem_constraint(Problem, c)} : Called("constraint", c, r)

Minimize ==
  /\ calls < MaxCalls
  /\ \E c \in ExplicitObjectives \cup ObjectiveTemplates \cup FailingObjectives :
       /\ c.form = "template" => Usable(c)
       /\ \E ob \in {Problem_objective(Problem, c)} :
            Solve("minimize", "min", c, ob, Outcomes(Len(variables)))

Maximize ==
  /\ calls < MaxCalls
  /\ \E c \in ExplicitObjectives \cup ObjectiveTemplates \cup FailingObjectives :
       /\ c.form = "template" => Usable(c)
       /\ \E ob \in {Problem_objective(Problem, c)} :
            Solve("maximize", "max", c, ob, Outcomes(Len(variables)))

Next ==
  \/ Variable \/ Bounds \/ Integer \/ Binary
  \/ ConstraintExplicit \/ ConstraintTemplate
  \/ Minimize \/ Maximize

Spec == Init /\ [][Next]_vars

(***************************************************************************)
(* Reading a behaviour of Spec                                             *)
(***************************************************************************)
\* s is the beginning of t
Prefix(s, t) == Len(s) <= Len(t) /\ SubSeq(t, 1, Len(s)) = s

SolveOps == {"minimize", "maximize"}

\* the last call was a solve that handed a message to io
Sent == last.op \in SolveOps /\ last.res.sent

\* a side of the constraint call c as a value: an operand of the explicit
\* form, a term of the template form
SideValue(H, c, side) ==
  IF c.form = "explicit" THEN OperandValue(H, side) ELSE TreeValue(H, side)

\* the (name, factor) list and the constant of Expression eid, read from
\* the object
TermsOf(H, eid) ==
  [i \in 1..Len(Content(H, eid).entries) |->
     [name |-> H.vars[Content(H, eid).entries[i].variable].name,
      factor |-> Content(H, eid).entries[i].factor]]

\* the positions of the equality (eq = TRUE) or the other constraints
Positions(conss, eq) == {i \in 1..Len(conss) : conss[i].isEquality = eq}

\* the place of position i among the positions S, counted from 1
Rank(S, i) == Cardinality({j \in S : j <= i})

\* term lists and offsets are those of the constraints at positions S, in
\* the order of S
Lists(H, conss, S, lists, offsets) ==
  /\ Len(lists) = Cardinality(S)
  /\ Len(offsets) = Cardinality(S)
  /\ \A i \in S :
       /\ lists[Rank(S, i)] = TermsOf(H, conss[i].expression)
       /\ offsets[Rank(S, i)] = H.exps[conss[i].expression].constant

(***************************************************************************)
(* C1: Problem.constraint normalizes its comparator.  Whenever a call of   *)
(* constraint returns, in the explicit form (left, operator, right) or in  *)
(* the template form, the Constraint it stored at the end of the list has  *)
(* the constant and the factor per variable name of right - left if the    *)
(* operator is >=, and of left - right if it is <= or ==; in the explicit  *)
(* form it has exactly the content sub of these operands returns; and      *)
(* isEquality is true exactly when the operator is ==.                     *)
(***************************************************************************)
C1_Normalized ==
  last.op = "constraint" /\ ~last.res.threw =>
    LET c == last.call
        cons == last.res.cons
        H == last.pre.heap
    IN  /\ "left" \in DOMAIN c
        /\ constraints = Append(last.pre.constraints, cons)
        /\ cons.isEquality <=> c.cmp = EQ
        /\ LET l == SideValue(H, c, c.left)
               r == SideValue(H, c, c.right)
           IN  Equivalent(heap, cons.expression,
                          IF c.cmp = GE THEN Combined("-", r, l)
                          ELSE Combined("-", l, r))
        /\ c.form = "explicit" =>
             LET s == IF c.cmp = GE THEN sub(H, c.right, c.left)
                      ELSE sub(H, c.left, c.right)
             IN  Content(heap, cons.expression) = Content(s.h, s.e)

\* after a first constraint, the template 1 + a >= 4 - b was stored
C1_Witness ==
  /\ last.op = "constraint"
  /\ last.call = Comparison(Sides2[1], GE, Sides2[2], "spaced")
  /\ ~last.res.threw
  /\ Len(constraints) = 2
  /\ ~constraints[2].isEquality

(***************************************************************************)
(* C5: the registry holds one Variable per name, the one the first call    *)
(* with that name created.  No two entries of the registry have the same   *)
(* name; no call removes, moves or replaces an entry; a call of variable   *)
(* with a name that is not registered appends one entry, a new Variable    *)
(* object with the given name and options; and a call with a registered    *)
(* name throws and leaves the registry as it was: same names, same order,  *)
(* same Variable objects with the same min, max, integer and initial.      *)
(***************************************************************************)
C5_Registry ==
  /\ \A i, j \in 1..Len(variables) :
       variables[i].key = variables[j].key => i = j
  /\ \A i \in 1..Len(variables) :
       heap.vars[variables[i].v].name = variables[i].key
  /\ last.op # "none" => Prefix(last.pre.variables, variables)
  /\ last.op = "variable" =>
       IF Has(last.pre.variables, last.call.name)
       THEN /\ last.res.threw
            /\ variables = last.pre.variables
            /\ heap.vars = last.pre.heap.vars
       ELSE /\ ~last.res.threw
            /\ variables = Append(last.pre.variables,
                                  [key |-> last.call.name, v |-> last.res.v])
            /\ last.res.v \notin 1..Len(last.pre.heap.vars)
            /\ heap.vars[last.res.v]
                 = NewVariable(last.call.name, last.call.options)
            /\ \A v \in 1..Len(last.pre.heap.vars) :
                 heap.vars[v] = last.pre.heap.vars[v]

\* with a and b registered, variable("a", ...) was called again and threw
C5_Witness ==
  /\ last.op = "variable"
  /\ last.res.threw
  /\ last.call.options = OptionsC
  /\ Keys(variables) = <<"a", "b">>
  /\ heap.vars[variables[1].v] = NewVariable("a", OptionsA)

(***************************************************************************)
(* C6: a modeling call that fails leaves no partial state.  Each of the    *)
(* templates with an unknown character, an open parenthesis, no            *)
(* comparator, two comparators, a product of two Variables or a quotient   *)
(* by a Variable makes constraint throw, and minimize and maximize throw   *)
(* for an objective that does not parse; after a template call that threw  *)
(* in parse, the constraint list, the content of every constraint, the     *)
(* registry and its Variables are what they were before the call, and what *)
(* solve would serialize as constraints and equalities is the same as      *)
(* before; and every solve serializes the constraints of the Problem it is *)
(* called on.                                                              *)
(***************************************************************************)
C6_NoPartialState ==
  /\ last.op \in {"constraint"} \cup SolveOps =>
       /\ "fails" \in DOMAIN last.call => last.res.threw
       /\ last.op \in SolveOps /\ "fails" \in DOMAIN last.call =>
            ~last.res.sent /\ msg = last.pre.msg
       /\ last.call.form = "template" /\ last.res.threw
            /\ (last.op \in SolveOps => ~last.res.sent) =>
            /\ constraints = last.pre.constraints
            /\ variables = last.pre.variables
            /\ heap.vars = last.pre.heap.vars
            /\ \A i \in 1..Len(constraints) :
                 Content(heap, constraints[i].expression)
                   = Content(last.pre.heap, constraints[i].expression)
            /\ TermLists(heap, Inequalities(constraints))
                 = TermLists(last.pre.heap, Inequalities(last.pre.constraints))
            /\ Offsets(heap, Inequalities(constraints))
                 = Offsets(last.pre.heap, Inequalities(last.pre.constraints))
            /\ TermLists(heap, Equalities(constraints))
                 = TermLists(last.pre.heap, Equalities(last.pre.constraints))
            /\ Offsets(heap, Equalities(constraints))
                 = Offsets(last.pre.heap, Equalities(last.pre.constraints))
  /\ Sent =>
       /\ msg.constraints
            = TermLists(last.pre.heap, Inequalities(last.pre.constraints))
       /\ msg.constraint_offsets
            = Offsets(last.pre.heap, Inequalities(last.pre.constraints))
       /\ msg.equalities
            = TermLists(last.pre.heap, Equalities(last.pre.constraints))
       /\ msg.equalities_offsets
            = Offsets(last.pre.heap, Equalities(last.pre.constraints))

\* with a constraint stored, a constraint template that multiplies two
\* Variables threw the multiplication error
C6_Witness ==
  /\ last.op = "constraint"
  /\ "fails" \in DOMAIN last.call
  /\ last.call.fails = "multiplication"
  /\ last.res.threw
  /\ last.res.err.kind = LinearityMessage("*")
  /\ Len(constraints) = 1

(***************************************************************************)
(* C9: the variable list handed to the backend.  In every message, the     *)
(* list of variables has one entry per registered variable, in the order   *)
(* of the registry, which every call only extends at its end; so the list  *)
(* of an earlier solve of the Problem is the beginning of the list of a    *)
(* later one; and the Solution returned maps the name of the i-th listed   *)
(* variable to the i-th value of the backend's answer (to undefined when   *)
(* the answer has no i-th value), in the same order.                       *)
(***************************************************************************)
C9_VariableOrder ==
  /\ last.op # "none" => Prefix(last.pre.variables, variables)
  /\ Sent =>
       /\ Len(msg.variables) = Len(variables)
       /\ \A i \in 1..Len(variables) : msg.variables[i].name = variables[i].key
       /\ \A i, j \in 1..Len(msg.variables) :
            msg.variables[i].name = msg.variables[j].name => i = j
       /\ last.pre.msg # NoMsg =>
            /\ Len(last.pre.msg.variables) <= Len(msg.variables)
            /\ \A i \in 1..Len(last.pre.msg.variables) :
                 last.pre.msg.variables[i].name = msg.variables[i].name
       /\ ~last.res.threw =>
            /\ last.res.solution.status = last.outcome.res.status
            /\ Len(last.res.solution.values) = Len(msg.variables)
            /\ \A i \in 1..Len(msg.variables) :
                 /\ last.res.solution.values[i].key = msg.variables[i].name
                 /\ last.res.solution.values[i].v
                      = IF i <= Len(last.outcome.res.values)
                        THEN <<last.outcome.res.values[i]>> ELSE <<>>

\* b was registered, a solve made, a registered, and a second solve
\* returned a Solution with a value for b and one for a
C9_Witness ==
  /\ Sent
  /\ ~last.res.threw
  /\ Keys(variables) = <<"b", "a">>
  /\ last.pre.msg # NoMsg
  /\ Len(last.pre.msg.variables) = 1
  /\ last.res.solution.values
       = << [key |-> "b", v |-> <<Int2Num(1)>>],
            [key |-> "a", v |-> <<Int2Num(2)>>] >>

(***************************************************************************)
(* C10: the constraint list is append-only and is split at solve time.     *)
(* No call removes, moves or changes a stored Constraint; a call of        *)
(* constraint that returns appends exactly one Constraint at the end, and  *)
(* no other call changes the list; in every message, constraints holds the *)
(* term lists of exactly the constraints that are not equalities, in the   *)
(* order they were added, and constraint_offsets their constants at the    *)
(* same positions; equalities and equalities_offsets hold the same for     *)
(* exactly the equalities; so every constraint is in one of the two groups *)
(* and in one only.                                                        *)
(***************************************************************************)
C10_ConstraintLists ==
  /\ last.op # "none" =>
       /\ Prefix(last.pre.constraints, constraints)
       /\ \A i \in 1..Len(last.pre.constraints) :
            Content(heap, constraints[i].expression)
              = Content(last.pre.heap, constraints[i].expression)
       /\ Len(constraints) =
            IF last.op = "constraint" /\ ~last.res.threw
            THEN Len(last.pre.constraints) + 1 ELSE Len(last.pre.constraints)
  /\ Sent =>
       /\ Lists(heap, constraints, Positions(constraints, FALSE),
                msg.constraints, msg.constraint_offsets)
       /\ Lists(heap, constraints, Positions(constraints, TRUE),
                msg.equalities, msg.equalities_offsets)
       /\ Len(msg.constraints) + Len(msg.equalities) = Len(constraints)

\* an equality, then an inequality were added, and a solve sent the one as
\* the only equality and the other as the only constraint
C10_Witness ==
  /\ Sent
  /\ Len(constraints) = 2
  /\ constraints[1].isEquality
  /\ ~constraints[2].isEquality
  /\ Len(msg.equalities) = 1
  /\ Len(msg.constraints) = 1
  /\ msg.equalities[1] # msg.constraints[1]

(***************************************************************************)
(* The example script: two variables, two constraints, one solve, each     *)
(* statement written with the algebra functions or as a template (tight    *)
(* or spaced); calls counts the statements done.                           *)
(***************************************************************************)
ExampleStyles == {"tight", "spaced"}

ExampleVariableA ==
  /\ calls = 0
  /\ \E c \in {[name |-> "a", options |-> OptionsA]} :
       \E r \in {Problem_variable(Problem, c.name, c.options)} :
         Called("variable", c, r)

ExampleVariableB ==
  /\ calls = 1
  /\ \E c \in {[name |-> "b", options |-> OptionsB]} :
       \E r \in {Problem_variable(Problem, c.name, c.options)} :
         Called("variable", c, r)

\* p.constraint`${a} + 2 <= ${b}` and p.constraint`1 + ${a} >= 4 - ${b}`
ExampleTemplate1 ==
  /\ calls = 2
  /\ \E style \in ExampleStyles :
       \E c \in {Comparison(Sides1[1], LE, Sides1[2], style)} :
         \E r \in {Problem_constraint(Problem, c)} : Called("constraint", c, r)

ExampleTemplate2 ==
  /\ calls = 3
  /\ \E style \in ExampleStyles :
       \E c \in {Comparison(Sides2[1], GE, Sides2[2], style)} :
         \E r \in {Problem_constraint(Problem, c)} : Called("constraint", c, r)

\* a constraint call of the explicit form whose sides l and r are in heap H
ExampleExplicit(H, l, cmp, r) ==
  \E c \in {[form |-> "explicit", left |-> l, cmp |-> cmp, right |-> r]} :
    \E res \in {Problem_constraint([Problem EXCEPT !.heap = H], c)} :
      Called("constraint", c, res)

\* p.constraint(add(a, 2), "<=", b)
ExampleExplicit1 ==
  /\ calls = 2
  /\ \E l \in {add(heap, VariableOp(1), NumberOp(Int2Num(2)))} :
       ExampleExplicit(l.h, ExpressionOp(l.e), LE, VariableOp(2))

\* p.constraint(add(1, a), ">=", sub(4, b))
ExampleExplicit2 ==
  /\ calls = 3
  /\ \E l \in {add(heap, NumberOp(Int2Num(1)), VariableOp(1))} :
       \E r \in {sub(l.h, NumberOp(Int2Num(4)), VariableOp(2))} :
         ExampleExplicit(r.h, ExpressionOp(l.e), GE, ExpressionOp(r.e))

\* what the backend may do with the message of the script
ExampleOutcomes ==
  Outcomes(2)
    \cup {[ptr |-> "buffer",
            res |-> [status |-> "unbounded", values |-> <<>>]]}

\* p.maximize`10 * (${a} - ${b} / 5) - ${b}`, and the same with minimize
ExampleMaximize ==
  /\ calls = 4
  /\ \E style \in ExampleStyles :
       \E c \in {Objective(ExampleObjective, style)} :
         \E ob \in {Problem_objective(Problem, c)} :
           Solve("maximize", "max", c, ob, ExampleOutcomes)

ExampleMinimize ==
  /\ calls = 4
  /\ \E style \in ExampleStyles :
       \E c \in {Objective(ExampleObjective, style)} :
         \E ob \in {Problem_objective(Problem, c)} :
           Solve("minimize", "min", c, ob, ExampleOutcomes)

\* sub(mul(10, sub(a, div(b, 5))), b) as the caller builds it: the heap
\* after the four calls and the Expression returned
ExampleExpression ==
  {[h |-> t.h, e |-> t.e] :
     t \in {sub(m.h, ExpressionOp(m.e), VariableOp(2)) :
              m \in {mul(s.h, Int2Num(10), ExpressionOp(s.e)) :
                       s \in {sub(d.h, VariableOp(1), ExpressionOp(d.e)) :
                                d \in {div(heap, VariableOp(2), Int2Num(5))}}}}}

\* p.maximize(sub(mul(10, sub(a, div(b, 5))), b)), and the same with minimize
ExampleMaximizeExplicit ==
  /\ calls = 4
  /\ \E t \in ExampleExpression :
       \E c \in {[form |-> "explicit", objective |-> ExpressionOp(t.e),
                  options |-> None]} :
         \E ob \in {Problem_objective([Problem EXCEPT !.heap = t.h], c)} :
           Solve("maximize", "max", c, ob, ExampleOutcomes)

ExampleMinimizeExplicit ==
  /\ calls = 4
  /\ \E t \in ExampleExpression :
       \E c \in {[form |-> "explicit", objective |-> ExpressionOp(t.e),
                  options |-> None]} :
         \E ob \in {Problem_objective([Problem EXCEPT !.heap = t.h], c)} :
           Solve("minimize", "min", c, ob, ExampleOutcomes)

NextExample ==
  \/ ExampleVariableA \/ ExampleVariableB
  \/ ExampleTemplate1 \/ ExampleTemplate2
  \/ ExampleExplicit1 \/ ExampleExplicit2
  \/ ExampleMaximize \/ ExampleMinimize
  \/ ExampleMaximizeExplicit \/ ExampleMinimizeExplicit

SpecExample == Init /\ [][NextExample]_vars

\* a term list as the set of its (name, factor) pairs
TermSet(terms) == {<<terms[i].name, terms[i].factor>> : i \in 1..Len(terms)}

\* the term list holds exactly one term for a and one for b, with these
\* factors
TermsAre(terms, fa, fb) ==
  /\ Len(terms) = 2
  /\ TermSet(terms) = {<<"a", Int2Num(fa)>>, <<"b", Int2Num(fb)>>}

(***************************************************************************)
(* C8 as stated: in the message the example script hands to the backend,   *)
(* there are exactly two inequality constraints and no equality; the first *)
(* has the terms a: 1, b: -1 and the offset 2, the second the terms a: 1,  *)
(* b: 1 and the offset -3.                                                 *)
(***************************************************************************)
C8_Fixture ==
  msg # NoMsg =>
    /\ Len(msg.constraints) = 2
    /\ Len(msg.constraint_offsets) = 2
    /\ Len(msg.equalities) = 0
    /\ Len(msg.equalities_offsets) = 0
    /\ TermsAre(msg.constraints[1], 1, -1)
    /\ msg.constraint_offsets[1] = Int2Num(2)
    /\ TermsAre(msg.constraints[2], 1, 1)
    /\ msg.constraint_offsets[2] = Int2Num(-3)

(***************************************************************************)
(* C8 as the code has it: the same, but the second constraint, written     *)
(* with >=, is stored as right - left and has the terms a: -1, b: -1 and   *)
(* the offset 3.                                                           *)
(***************************************************************************)
C8_FixtureAsBuilt ==
  msg # NoMsg =>
    /\ Len(msg.constraints) = 2
    /\ Len(msg.constraint_offsets) = 2
    /\ Len(msg.equalities) = 0
    /\ Len(msg.equalities_offsets) = 0
    /\ TermsAre(msg.constraints[1], 1, -1)
    /\ msg.constraint_offsets[1] = Int2Num(2)
    /\ TermsAre(msg.constraints[2], -1, -1)
    /\ msg.constraint_offsets[2] = Int2Num(3)

\* the script with its templates as written was run to the end and the
\* backend answered
C8_Witness ==
  /\ Sent
  /\ last.op = "maximize"
  /\ last.call = Objective(ExampleObjective, "spaced")
  /\ ~last.res.threw
  /\ heap.vars = << NewVariable("a", OptionsA), NewVariable("b", OptionsB) >>
  /\ Keys(variables) = <<"a", "b">>
  /\ Len(constraints) = 2
  /\ msg.constraints[2] = << [name |-> "b", factor |-> Int2Num(-1)],
                             [name |-> "a", factor |-> Int2Num(-1)] >>

(***************************************************************************)
(* The text specification: the caller of one Problem with the Variable a   *)
(* writes one template, well-formed or not, and passes it to exp, to       *)
(* constraint, to minimize or to maximize.  A template is a sequence of    *)
(* units written one after the other, tight (nothing between them) or      *)
(* spaced (one blank between them).                                        *)
(***************************************************************************)
\* units in one enumerated template
MaxUnits == 3

\* a placeholder, an unsigned and a signed literal, a fraction without its
\* integer part, operators, parentheses, a comparator, an unknown character
Units ==
  {<<"$">>, <<"2">>, <<"-", "1">>, <<".", "5">>, <<"+">>, <<"*">>, <<"(">>, <<")">>, <<"<", "=">>, <<"?">>}

TextStyles == {"tight", "spaced"}

Separator(style) == IF style = "tight" THEN <<>> ELSE <<" ">>

RECURSIVE Joined(_, _)
Joined(us, sep) ==
  IF us = <<>> THEN <<>>
  ELSE IF Len(us) = 1 THEN us[1]
  ELSE us[1] \o sep \o Joined(Tail(us), sep)

\* the value of the k-th placeholder of a template: the Variable a, the
\* number 3, the Variable a, ...
PlaceholderAt(k) == IF k % 2 = 1 THEN VariableOp(1) ELSE NumberOp(Int2Num(3))

Marks(text) == Cardinality({i \in 1..Len(text) : text[i] = "$"})

\* the template call written from the units us
Text(us, style) ==
  [form |-> "template", style |-> style, units |-> us,
   text |-> Joined(us, Separator(style)),
   strings |-> Pieces(Joined(us, Separator(style))),
   vars |-> [k \in 1..Marks(Joined(us, Separator(style))) |-> PlaceholderAt(k)]]

\* longer templates: a comparator in parentheses, two comparators, chained
\* and adjacent, text after a fraction, a parenthesis that closes nothing
LongTexts ==
  { <<<<"(">>, <<"$">>, <<"<", "=">>, <<"2">>, <<")">>>>,
    <<<<"$">>, <<"<", "=">>, <<"2">>, <<"<", "=">>, <<"2">>>>,
    <<<<"$">>, <<"<", "=">>, <<"<", "=">>, <<"2">>>>,
    <<<<"$">>, <<"<", "=">>, <<".", "5">>, <<"<", "=">>, <<"2">>>>,
    <<<<"$">>, <<"<", "=">>, <<".", "5">>, <<"?">>>>,
    <<<<"$">>, <<"+">>, <<".", "5">>, <<")">>>>,
    <<<<"(">>, <<"$">>, <<"+">>, <<"2">>, <<")">>, <<"<", "=">>, <<"2">>>>,
    <<<<"$">>, <<"*">>, <<"(">>, <<"2">>, <<"-", "1">>, <<")">>>>,
    <<<<"(">>, <<"(">>, <<"$">>, <<")">>, <<"+">>, <<"2">>>>,
    <<<<"$">>, <<"+">>, <<"2">>, <<"$">>>> }

UnitSeqs == UNION {[1..n -> Units] : n \in 0..MaxUnits} \cup LongTexts

InitText ==
  /\ heap = [EmptyHeap EXCEPT !.vars = << NewVariable("a", NoOptions) >>]
  /\ variables = << [key |-> "a", v |-> 1] >>
  /\ constraints = <<>>
  /\ held = <<>>
  /\ last = NoCall
  /\ msg = NoMsg
  /\ calls = 0
  /\ \E us \in UnitSeqs, style \in TextStyles : tpl = Text(us, style)

\* exp`...` gave r: the caller keeps the Expression it returns; what a call
\* that throws allocated is unreachable
Expressed(c, r) ==
  /\ heap' = IF r.ok THEN r.h ELSE heap
  /\ held' = IF r.ok THEN Append(held, r.e) ELSE held
  /\ last' = [op |-> "exp", call |-> c, pre |-> Pre,
              res |-> IF r.ok THEN [threw |-> FALSE, e |-> r.e]
                      ELSE [threw |-> TRUE, err |-> r.err]]
  /\ calls' = calls + 1
  /\ UNCHANGED <<variables, constraints, msg, tpl>>

ExpText ==
  /\ last = NoCall
  /\ \E r \in {parseExpression(heap, tpl.strings, tpl.vars)} : Expressed(tpl, r)

ConstraintText ==
  /\ last = NoCall
  /\ \E r \in {Problem_constraint(Problem, tpl)} : Called("constraint", tpl, r)

MinimizeText ==
  /\ last = NoCall
  /\ \E ob \in {Problem_objective(Problem, tpl)} :
       Solve("minimize", "min", tpl, ob, Outcomes(Len(variables)))

MaximizeText ==
  /\ last = NoCall
  /\ \E ob \in {Problem_objective(Problem, tpl)} :
       Solve("maximize", "max", tpl, ob, Outcomes(Len(variables)))

NextText == ExpText \/ ConstraintText \/ MinimizeText \/ MaximizeText

SpecText == InitText /\ [][NextText]_vars

(***************************************************************************)
(* The lexical grammar of a literal segment, read off the text: blanks are *)
(* skipped, then comes a decimal literal (optional sign, digits, optional  *)
(* fractional part), one of + - * / ( ), or one of <= == >=, the longest   *)
(* first.  A lexeme is the kind of what stands at position `at`, "other"   *)
(* when it is none of these; nothing is read after an "other".  In the     *)
(* text of a whole template the mark "$" is the lexeme "placeholder".      *)
(***************************************************************************)
Lexeme(kind, at, len) == [kind |-> kind, at |-> at, len |-> len]

RECURSIVE LexemesFrom(_, _)

\* the lexemes from position j on, piece[j] being no blank
LexemesAt(piece, j) ==
  IF j > Len(piece) THEN <<>>
  ELSE IF DecimalLen(piece, j) > 0
  THEN <<Lexeme("number", j, DecimalLen(piece, j))>>
         \o LexemesFrom(piece, j + DecimalLen(piece, j))
  ELSE IF piece[j] \in OpChars \cup {"(", ")"}
  THEN <<Lexeme(piece[j], j, 1)>> \o LexemesFrom(piece, j + 1)
  ELSE IF <<piece[j], CharAt(piece, j + 1)>> \in Comparators
  THEN <<Lexeme("comparator", j, 2)>> \o LexemesFrom(piece, j + 2)
  ELSE IF piece[j] = "$"
  THEN <<Lexeme("placeholder", j, 1)>> \o LexemesFrom(piece, j + 1)
  ELSE <<Lexeme("other", j, Len(piece) - j + 1)>>

LexemesFrom(piece, i) == LexemesAt(piece, i + Run(piece, i, WhiteSpace))

Lexemes(piece) == LexemesFrom(piece, 1)

\* the segment holds text the grammar has no lexeme for
Unrecognized(piece) ==
  \E i \in 1..Len(Lexemes(piece)) : Lexemes(piece)[i].kind = "other"

\* the position (from 1) of the first character of that text
UnrecognizedAt(piece) ==
  (CHOOSE l \in {Lexemes(piece)[i] : i \in 1..Len(Lexemes(piece))} :
     l.kind = "other").at

\* the calls that take a template
TextOps == {"exp", "constraint", "minimize", "maximize"}

\* the last call was given a template as text
TextCall == last.op \in TextOps /\ last.call.form = "template"

\* the literal segments of the template of the last call
Segments == {last.call.strings[i] : i \in 1..Len(last.call.strings)}

(***************************************************************************)
(* C11: scanning a literal segment accepts only decimal literals (optional *)
(* sign, digits, optional fractional part), the characters + - * / ( ),    *)
(* the comparators <= == >= and white space; whenever a segment of a       *)
(* template holds any other text, the call fails with a lexical error, so  *)
(* that the text is neither turned into a token nor dropped and the        *)
(* template yields no Expression and no Constraint.                        *)
(***************************************************************************)
C11_OnlyGrammarAccepted ==
  TextCall /\ (\E piece \in Segments : Unrecognized(piece)) =>
    /\ last.res.threw
    /\ last.res.err.kind = "lexical"
    /\ constraints = last.pre.constraints

\* the unrecognized text starts with what parseFloat reads as a number
NumberPrefix(piece) ==
  /\ Unrecognized(piece)
  /\ ~IsNaN(ParseFloat(SubSeq(piece, UnrecognizedAt(piece), Len(piece))))

\* what the calls do meet of C11: a template with unrecognized text fails,
\* unless that text starts like a number
UnrecognizedFailsUnlessNumberPrefix ==
  /\ TextCall
  /\ \E piece \in Segments : Unrecognized(piece)
  /\ \A piece \in Segments : ~NumberPrefix(piece)
  => last.res.threw /\ constraints = last.pre.constraints

(***************************************************************************)
(* Terms with a numeric literal written right after an operand.  A term is *)
(* written spaced, or juxtaposed: spaced, but without the "+" of a sum     *)
(* whose right operand is a literal, as in  a -1  for a + -1.              *)
(***************************************************************************)
\* binary operators in one term of this family
MaxJuxtaOps == 2

JuxtaLeaves == {Lit(<<"2">>), Lit(<<"-", "1">>), First}
JuxtaOps == {"+", "*"}
JuxtaStyles == {"spaced", "juxtaposed"}

\* a literal after a closing parenthesis, as in 2 * (a + a) -1, and a
\* literal with the sign "+"
JuxtaExamples ==
  {Bin("+", First, Lit(<<"+", "1">>)),
   Bin("+", Bin("*", Lit(<<"2">>), Bin("+", First, First)), Lit(<<"-", "1">>)),
   Bin("+", Bin("+", First, Bin("+", First, First)), Lit(<<"-", "1">>)),
   Bin("+", Bin("*", Lit(<<"2">>), Bin("+", First, First)), Lit(<<"2">>))}

RECURSIVE WrittenJuxtaposed(_)
WrittenJuxtaposed(t) ==
  IF t.kind = "lit" THEN [text |-> t.text, vars |-> <<>>]
  ELSE IF t.kind = "ph" THEN [text |-> <<"$">>, vars |-> <<t.operand>>]
  ELSE LET l == WrittenJuxtaposed(t.left)
           r == WrittenJuxtaposed(t.right)
           lt == IF Prec(t.left) < Prec(t) THEN Paren(l.text) ELSE l.text
           rt == IF Prec(t.right) <= Prec(t) THEN Paren(r.text) ELSE r.text
           o == IF t.op = "+" /\ t.right.kind = "lit" THEN <<" ">>
                ELSE <<" ", t.op, " ">>
       IN  [text |-> lt \o o \o rt, vars |-> l.vars \o r.vars]

WrittenAs(t, style) ==
  IF style = "juxtaposed" THEN WrittenJuxtaposed(t) ELSE Written(t, "spaced")

\* the template call of term t
TermText(t, style) ==
  [form |-> "template", style |-> style, tree |-> t,
   text |-> WrittenAs(t, style).text,
   strings |-> Pieces(WrittenAs(t, style).text),
   vars |-> WrittenAs(t, style).vars]

\* the template call of the comparison  l cmp r
ComparisonText(l, cmp, r, style) ==
  [form |-> "template", style |-> style, left |-> l, cmp |-> cmp, right |-> r,
   text |-> WrittenAs(l, style).text \o <<" ">> \o cmp \o <<" ">>
              \o WrittenAs(r, style).text,
   strings |-> Pieces(WrittenAs(l, style).text \o <<" ">> \o cmp \o <<" ">>
                        \o WrittenAs(r, style).text),
   vars |-> WrittenAs(l, style).vars \o WrittenAs(r, style).vars]

JuxtaTerms ==
  UNION {{Fill(sh, ops, lv, 1, 1) :
            sh \in Shapes(n), ops \in [1..n -> JuxtaOps],
            lv \in [1..(n + 1) -> JuxtaLeaves]} : n \in 0..MaxJuxtaOps}
    \cup JuxtaExamples

\* the sides of the comparisons: a, a + -1, a + 2 against -1, 2, 2 + -1
JuxtaLefts == {First, Bin("+", First, Lit(<<"-", "1">>)), Bin("+", First, Lit(<<"2">>))}
JuxtaRights == {Lit(<<"-", "1">>), Lit(<<"2">>), Bin("+", Lit(<<"2">>), Lit(<<"-", "1">>))}

InitJuxta ==
  /\ heap = [EmptyHeap EXCEPT !.vars = << NewVariable("a", NoOptions) >>]
  /\ variables = << [key |-> "a", v |-> 1] >>
  /\ constraints = <<>>
  /\ held = <<>>
  /\ last = NoCall
  /\ msg = NoMsg
  /\ calls = 0
  /\ \/ \E t \in JuxtaTerms, style \in JuxtaStyles : tpl = TermText(t, style)
     \/ \E l \in JuxtaLefts, cmp \in Comparators, r \in JuxtaRights,
           style \in JuxtaStyles : tpl = ComparisonText(l, cmp, r, style)

SpecJuxta == InitJuxta /\ [][NextText]_vars

\* does term t hold a sum written without its "+" whose literal is signed
\* (signed = TRUE), is not signed (signed = FALSE)?
RECURSIVE HasJuxtaposed(_, _)
HasJuxtaposed(t, signed) ==
  /\ t.kind = "bin"
  /\ \/ /\ t.op = "+"
        /\ t.right.kind = "lit"
        /\ (t.right.text[1] \in {"+", "-"}) = signed
     \/ HasJuxtaposed(t.left, signed)
     \/ HasJuxtaposed(t.right, signed)

\* the objective of message m has the value v
ObjectiveIs(m, v) ==
  /\ m.objective_offset = v.c
  /\ {m.objective[i].name : i \in 1..Len(m.objective)} = DOMAIN v.f
  /\ \A i \in 1..Len(m.objective) :
       m.objective[i].factor = v.f[m.objective[i].name]

\* the last call, of exp, minimize or maximize, took its template as the
\* Expression of value v
TookAs(v) ==
  /\ ~last.res.threw \/ (last.op \in SolveOps /\ last.res.sent)
  /\ last.op = "exp" => Equivalent(heap, last.res.e, v)
  /\ last.op \in SolveOps => ObjectiveIs(msg, v)

\* the last call, of constraint, stored the comparison of the values l, r
StoredAs(l, cmp, r) ==
  /\ ~last.res.threw
  /\ Len(constraints) = Len(last.pre.constraints) + 1
  /\ Equivalent(heap, constraints[Len(constraints)].expression,
                IF cmp = GE THEN Combined("-", r, l) ELSE Combined("-", l, r))

\* the errors of the parser about a token it did not expect
UnexpectedToken ==
  {"Unexpected token at end of expression", "Unexpected token at end of constraint",
   "Expected ')'", "Expected one of '<=', '==', '>='", "Unexpected token"}

\* the last call was given a term, a comparison, written in a style where
\* literals may follow operands directly
TermCall ==
  TextCall /\ last.op # "constraint" /\ "tree" \in DOMAIN last.call
ComparisonCall ==
  TextCall /\ last.op = "constraint" /\ "cmp" \in DOMAIN last.call

(***************************************************************************)
(* C12: a numeric literal written directly after a literal, a closing      *)
(* parenthesis or a placeholder, with no operator between them, is added   *)
(* to it, as if "+" stood before the literal; a literal that starts the    *)
(* template or follows an operator, an opening parenthesis or a comparator *)
(* gets no "+".  So a term of linear products, written juxtaposed or       *)
(* spaced, is taken as the Expression ordinary arithmetic gives it, and so *)
(* are the two sides of a comparison.                                      *)
(***************************************************************************)
C12_ImplicitPlus ==
  /\ TermCall =>
       LET v == TreeValue(last.pre.heap, last.call.tree)
       IN  v.lin => TookAs(v)
  /\ ComparisonCall =>
       StoredAs(TreeValue(last.pre.heap, last.call.left), last.call.cmp,
                TreeValue(last.pre.heap, last.call.right))

(***************************************************************************)
(* C12 as amended: a numeric literal written with a sign directly after a  *)
(* literal, a closing parenthesis or a placeholder, with no operator       *)
(* between them, is added to it; a literal without a sign in that place    *)
(* gets no "+", so that the template fails with the parser's error about   *)
(* an unexpected token; a literal that starts the template or follows an   *)
(* operator, an opening parenthesis or a comparator gets no "+".           *)
(***************************************************************************)
C12_ImplicitPlusIfSigned ==
  /\ TermCall =>
       LET t == last.call.tree
           v == TreeValue(last.pre.heap, t)
           bare == last.call.style = "juxtaposed" /\ HasJuxtaposed(t, FALSE)
       IN  /\ bare => last.res.threw /\ last.res.err.kind \in UnexpectedToken
           /\ ~bare /\ v.lin => TookAs(v)
  /\ ComparisonCall =>
       LET c == last.call
           bare == /\ c.style = "juxtaposed"
                   /\ HasJuxtaposed(c.left, FALSE) \/ HasJuxtaposed(c.right, FALSE)
       IN  /\ bare => /\ last.res.threw
                      /\ last.res.err.kind \in UnexpectedToken
                      /\ constraints = last.pre.constraints
           /\ ~bare => StoredAs(TreeValue(last.pre.heap, c.left), c.cmp,
                                TreeValue(last.pre.heap, c.right))

\* exp`2 * (${a} + ${a}) -1` returned 4 * a - 1
C12_Witness ==
  /\ last.op = "exp"
  /\ last.call.form = "template"
  /\ last.call.text = <<"2", " ", "*", " ", "(", "$", " ", "+", " ", "$", ")", " ", "-", "1">>
  /\ ~last.res.threw
  /\ Content(heap, last.res.e).constant = Int2Num(-1)
  /\ Content(heap, last.res.e).entries[1].factor = Int2Num(4)

(***************************************************************************)
(* C13: white space around tokens is skipped and never significant.  A     *)
(* literal segment that is only white space gives no token and no error,   *)
(* and a template written with white space before or after its tokens      *)
(* (spaced, padded) gives what the same template written without any       *)
(* (tight) gives: the same Expression, or the same error.                  *)
(***************************************************************************)
\* exp`...` of the term of the last call, written tight, before that call
WrittenTight ==
  parseExpression(last.pre, Pieces(Template(last.tpl.tree, "tight").text),
                  last.tpl.vars)

\* the last call gave what r is: the same Expression or the same error
SameAs(r) ==
  /\ last.res.ok = r.ok
  /\ r.ok => Content(heap, last.res.e) = Content(r.h, r.e)
  /\ ~r.ok => last.res.err = r.err

C13_WhiteSpaceSkipped ==
  last.op = "template" =>
    /\ BlankPiece(last.tpl) => last.res.ok \/ last.res.err.kind # "lexical"
    /\ SameAs(WrittenTight)

\* what exp does meet of C13: the same, for the templates none of whose
\* pieces is blank
WhiteSpaceSkippedUnlessBlankPiece ==
  last.op = "template" /\ ~BlankPiece(last.tpl) => SameAs(WrittenTight)

(***************************************************************************)
(* Reading the text of a template: where its comparators stand and how     *)
(* deep in parentheses.                                                    *)
(***************************************************************************)
\* the positions of the text at which a comparator starts
ComparatorsAt(text) ==
  {i \in 1..Len(text) : <<text[i], CharAt(text, i + 1)>> \in Comparators}

Count(text, i, c) == Cardinality({j \in 1..(i - 1) : text[j] = c})

\* the parentheses open at position i
Depth(text, i) == Count(text, i, "(") - Count(text, i, ")")

\* the text has exactly one comparator, outside every parenthesis
OneTopLevelComparator(text) ==
  /\ Cardinality(ComparatorsAt(text)) = 1
  /\ \A i \in ComparatorsAt(text) : Depth(text, i) <= 0

\* the last call threw, stored no constraint and sent no message
Rejected ==
  /\ last.res.threw
  /\ constraints = last.pre.constraints
  /\ msg = last.pre.msg

(***************************************************************************)
(* C14: a constraint template is accepted only when it has exactly one     *)
(* comparator and that comparator is at the top level.  A template with no *)
(* comparator, with two or more, or with a comparator inside parentheses   *)
(* makes constraint throw and add no constraint; a template with any       *)
(* comparator makes exp, minimize and maximize throw.                      *)
(***************************************************************************)
C14_OneComparator ==
  TextCall =>
    /\ last.op = "constraint" /\ ~OneTopLevelComparator(last.call.text)
         => Rejected
    /\ last.op # "constraint" /\ ComparatorsAt(last.call.text) # {}
         => Rejected

\* what the calls do meet of C14: the same, for the templates without text
\* that the scanner drops after a number prefix (C11)
OneComparatorUnlessNumberPrefix ==
  TextCall /\ (\A piece \in Segments : ~NumberPrefix(piece)) => C14_OneComparator

(***************************************************************************)
(* Reading the text of a template: its parentheses and the order of its    *)
(* lexemes.                                                                *)
(***************************************************************************)
\* a ")" that closes nothing, or a "(" that nothing closes
Unbalanced(text) ==
  \/ \E i \in 1..Len(text) : text[i] = ")" /\ Depth(text, i) <= 0
  \/ Depth(text, Len(text) + 1) > 0

\* the lexemes end where an operand has to follow: there is none, or the
\* last one is an operator, an opening parenthesis or a comparator
EndsBeforeOperand(ls) ==
  \/ ls = <<>>
  \/ ls[Len(ls)].kind \in OpChars \cup {"(", "comparator"}

\* an operand is complete and what follows starts another one: a
\* placeholder or an opening parenthesis after a literal, a placeholder or a
\* closing parenthesis
OperandAfterOperand(ls) ==
  \E i \in 1..(Len(ls) - 1) :
    /\ ls[i].kind \in {"number", "placeholder", ")"}
    /\ ls[i + 1].kind \in {"placeholder", "("}

Malformed(text) ==
  \/ Unbalanced(text)
  \/ EndsBeforeOperand(Lexemes(text))
  \/ OperandAfterOperand(Lexemes(text))

\* the errors of the parser
ParseErrors == UnexpectedToken \cup {"Unexpected end of expression"}

(***************************************************************************)
(* C15: a template whose parentheses are not balanced (a "(" without its   *)
(* ")", a ")" that closes nothing), whose tokens end where an operand is   *)
(* required, or that has tokens left after a complete expression or        *)
(* constraint, never yields an Expression or a Constraint: the call        *)
(* throws, with a parse error when all the text of the template is within  *)
(* the lexical grammar.                                                    *)
(***************************************************************************)
C15_MalformedRejected ==
  TextCall /\ Malformed(last.call.text) =>
    /\ Rejected
    /\ (\A piece \in Segments : ~Unrecognized(piece))
         => last.res.err.kind \in ParseErrors

\* a segment that is not empty and all white space
Blank(piece) == piece # <<>> /\ \A j \in 1..Len(piece) : piece[j] \in WhiteSpace

\* what the calls do meet of C15: the same, for the templates without a
\* segment that is blank (C13) or has a number prefix (C11)
MalformedRejectedUnlessMisread ==
  /\ TextCall
  /\ \A piece \in Segments : ~NumberPrefix(piece) /\ ~Blank(piece)
  => C15_MalformedRejected

(***************************************************************************)
(* C16: bounds(), int() and binary() change the Variable they are called   *)
(* on in place and return that same Variable, the one the registry holds   *)
(* and every expression references: no Variable object is added, bounds    *)
(* sets min and max to its arguments, int sets integer to true, binary     *)
(* sets min = 0, max = 1 and integer = true, and nothing else changes; no  *)
(* other call changes an attribute of a Variable; and the min, max and     *)
(* integer a solve sends for each Variable are the ones the Variable has   *)
(* then.  So what is sent is what the latest builder call on each          *)
(* Variable left, whatever the order of the calls.                         *)
(***************************************************************************)
BuilderOps == {"bounds", "int", "binary"}

\* what the builder call c of the method op leaves of the Variable x
LeftBy(op, c, x) ==
  IF op = "bounds" THEN [x EXCEPT !.min = <<c.min>>, !.max = <<c.max>>]
  ELSE IF op = "int" THEN [x EXCEPT !.integer = <<TRUE>>]
  ELSE [x EXCEPT !.min = <<Int2Num(0)>>, !.max = <<Int2Num(1)>>,
                 !.integer = <<TRUE>>]

\* the attribute x of a Variable as the message is to carry it
Serialized(x, absent) == IF x = <<>> THEN absent ELSE x[1]

C16_BuildersInPlace ==
  /\ last.op \in BuilderOps =>
       /\ last.res.v = last.call.v
       /\ Len(heap.vars) = Len(last.pre.heap.vars)
       /\ variables = last.pre.variables
       /\ heap.recs = last.pre.heap.recs
       /\ heap.exps = last.pre.heap.exps
       /\ \A v \in 1..Len(heap.vars) :
            heap.vars[v] = IF v = last.call.v
                           THEN LeftBy(last.op, last.call, last.pre.heap.vars[v])
                           ELSE last.pre.heap.vars[v]
  /\ last.op \notin BuilderOps \cup {"none"} =>
       \A v \in 1..Len(last.pre.heap.vars) : heap.vars[v] = last.pre.heap.vars[v]
  /\ Sent =>
       /\ Len(msg.variables) = Len(variables)
       /\ \A i \in 1..Len(variables) :
            /\ msg.variables[i].min = Serialized(heap.vars[variables[i].v].min, Null)
            /\ msg.variables[i].max = Serialized(heap.vars[variables[i].v].max, Null)
            /\ msg.variables[i].integer
                 = Serialized(heap.vars[variables[i].v].integer, FALSE)

\* a solve sent min = 0, max = 1, integer = true for a Variable that was
\* registered with max = 1 only, is used in a constraint and was made binary
C16_Witness ==
  /\ Sent
  /\ Len(variables) = 1
  /\ heap.vars[1].initial = None
  /\ Len(constraints) = 1
  /\ Len(heap.exps[constraints[1].expression].coeff) = 1
  /\ msg.variables[1].min = Int2Num(0)
  /\ msg.variables[1].max = Int2Num(1)
  /\ msg.variables[1].integer = TRUE

(***************************************************************************)
(* Equivalence of Expressions: the same constant and the same effective    *)
(* factor per variable name, a name without an entry having the factor 0;  *)
(* the order of the entries does not count.                                *)
(***************************************************************************)
SameValue(c1, c2) ==
  /\ c1.constant = c2.constant
  /\ \A name \in Names(c1) \cup Names(c2) :
       FactorOr0(c1, name) = FactorOr0(c2, name)

(***************************************************************************)
(* The sum specification: a caller with the Variables a and b holds three  *)
(* operands x, y, z with integer constants and factors, each a number, a   *)
(* Variable or an Expression it built with exp and addMul, and adds them   *)
(* in two ways.                                                            *)
(***************************************************************************)
\* the largest factor of an entry of a built Expression
MaxFactor == 1

Factors == {-1} \cup 0..MaxFactor

\* the constants of the Expressions built as x, y and z
ConstantOf == << Int2Num(1), Int2Num(-1), Int2Num(2) >>

\* what an operand is built from: a number, a Variable, or the factors of a
\* and b of an Expression (0: no entry) and which entry comes first
Blueprints ==
  {[kind |-> "num"], [kind |-> "var"]}
    \cup {bp \in [kind : {"exp"}, fa : Factors, fb : Factors, first : {1, 2}] :
            bp.first = 2 => bp.fa # 0 /\ bp.fb # 0}

\* addMul(e, f, v) unless f is 0, e being what the call before returned
WithTerm(r, f, v) ==
  IF f = 0 THEN r ELSE addMul(r.h, ExpressionOp(r.e), Int2Num(f), VariableOp(v))

\* the Expression of blueprint bp with constant k, built on heap H
BuiltExpression(H, bp, k) ==
  IF bp.first = 1
  THEN WithTerm(WithTerm(exp(H, NumberOp(k)), bp.fa, 1), bp.fb, 2)
  ELSE WithTerm(WithTerm(exp(H, NumberOp(k)), bp.fb, 2), bp.fa, 1)

\* the heap and the operand after building blueprint bp as the i-th operand
BuiltOperand(H, bp, i) ==
  IF bp.kind = "num" THEN [h |-> H, x |-> NumberOp(ConstantOf[i])]
  ELSE IF bp.kind = "var"
  THEN [h |-> H, x |-> VariableOp(IF i = 2 THEN 2 ELSE 1)]
  ELSE [h |-> BuiltExpression(H, bp, ConstantOf[i]).h,
        x |-> ExpressionOp(BuiltExpression(H, bp, ConstantOf[i]).e)]

\* the caller's three operands; `held` holds them in place of Expressions
Holding(x, y, z) ==
  /\ heap = z.h
  /\ held = << x.x, y.x, z.x >>

InitSum ==
  /\ variables = << [key |-> "a", v |-> 1], [key |-> "b", v |-> 2] >>
  /\ constraints = <<>>
  /\ last = NoCall
  /\ msg = NoMsg
  /\ calls = 0
  /\ tpl = NoTemplate
  /\ \E bx \in Blueprints, by \in Blueprints, bz \in Blueprints :
       \E x \in {BuiltOperand([EmptyHeap EXCEPT
                                 !.vars = << NewVariable("a", NoOptions),
                                             NewVariable("b", NoOptions) >>],
                              bx, 1)} :
         \E y \in {BuiltOperand(x.h, by, 2)} :
           \E z \in {BuiltOperand(y.h, bz, 3)} : Holding(x, y, z)

\* the caller made two calls that returned the Expressions l and r, the
\* second on heap H
Both(op, l, r, H) ==
  /\ heap' = H
  /\ last' = [op |-> op, pre |-> heap, left |-> l, right |-> r]
  /\ calls' = calls + 1
  /\ UNCHANGED <<variables, constraints, held, msg, tpl>>

\* add(add(x, y), z), then add(x, add(y, z))
Associate ==
  /\ last = NoCall
  /\ \E xy \in {add(heap, held[1], held[2])} :
       \E l \in {add(xy.h, ExpressionOp(xy.e), held[3])} :
         \E yz \in {add(l.h, held[2], held[3])} :
           \E r \in {add(yz.h, held[1], ExpressionOp(yz.e))} :
             Both("associate", l.e, r.e, r.h)

\* add(x, y), then add(y, x)
Commute ==
  /\ last = NoCall
  /\ \E l \in {add(heap, held[1], held[2])} :
       \E r \in {add(l.h, held[2], held[1])} :
         Both("commute", l.e, r.e, r.h)

NextSum == Associate \/ Commute

SpecSum == InitSum /\ [][NextSum]_vars

(***************************************************************************)
(* C17: add is associative and commutative up to equivalence.  For all     *)
(* operands x, y, z with integer constants and factors over the variables  *)
(* a and b, add(add(x, y), z) is equivalent to add(x, add(y, z)) and       *)
(* add(x, y) to add(y, x): the same constant and the same effective factor *)
(* per variable name, whatever the entry order.                            *)
(***************************************************************************)
C17_AddAssociativeCommutative ==
  last.op \in {"associate", "commute"} =>
    SameValue(Content(heap, last.left), Content(heap, last.right))

\* add(add(x, y), z) and add(x, add(y, z)) were called with x = 1 + a - b,
\* y = -1 - b + a, z = 2 - a, and the sums have their entries in different
\* orders
C17_Witness ==
  /\ last.op = "associate"
  /\ View(last.pre, held[1]).entries
       = << [key |-> "a", factor |-> Int2Num(1), variable |-> 1],
            [key |-> "b", factor |-> Int2Num(-1), variable |-> 2] >>
  /\ held[2].t = "exp"
  /\ Keys(heap.exps[held[2].v].coeff) = << "b", "a" >>
  /\ View(last.pre, held[3]).entries
       = << [key |-> "a", factor |-> Int2Num(-1), variable |-> 1] >>
  /\ Content(heap, last.left).constant = Int2Num(2)
  /\ FactorOr0(Content(heap, last.left), "b") = Int2Num(-2)
  /\ FactorOr0(Content(heap, last.right), "a") = Int2Num(1)

(***************************************************************************)
(* C18: addMul is left-identity-safe.  For every Expression e and every    *)
(* operand other, addMul(e, 0, other) is e up to the order of the entries: *)
(* the same constant and the same entries with the same factors as e.      *)
(***************************************************************************)
C18_AddMulZero ==
  /\ last.op = "addMul"
  /\ last.expression.t = "exp"
  /\ last.coefficient = Int2Num(0)
  =>
    LET e == View(last.pre, last.expression)
        r == Content(heap, last.e)
    IN  /\ r.constant = e.constant
        /\ Names(r) = Names(e)
        /\ \A name \in Names(e) : EntryOf(r, name).factor = EntryOf(e, name).factor

\* what addMul does meet of C18: with a finite operand other it returns e
\* up to entries of factor 0
AddMulZeroEffective ==
  /\ last.op \in AlgebraOps
  /\ last.coefficient = Int2Num(0)
  /\ View(last.pre, last.other).constant.d # 0
  /\ \A i \in 1..Len(View(last.pre, last.other).entries) :
       View(last.pre, last.other).entries[i].factor.d # 0
  => SameValue(Content(heap, last.e), View(last.pre, last.expression))

\* the last call is p.maximize with the objective template of the example
\* script, and its message was handed to the backend
ExampleMaximized ==
  /\ Sent
  /\ last.op = "maximize"
  /\ last.call.form = "template"
  /\ \E style \in ExampleStyles : last.call = Objective(ExampleObjective, style)

(***************************************************************************)
(* C19 as stated: the objective template maximize`10 * (a - b / 5) - b` of *)
(* the example script is handed to the backend with the objective terms    *)
(* a: 10, b: -11 and the direction max.                                    *)
(***************************************************************************)
C19_Objective ==
  ExampleMaximized =>
    /\ TermsAre(msg.objective, 10, -11)
    /\ msg.direction = "max"

(***************************************************************************)
(* C19 as the code has it: the same, with the objective terms a: 10,       *)
(* b: -3, the offset 0 and the direction max.                              *)
(***************************************************************************)
C19_ObjectiveAsBuilt ==
  ExampleMaximized =>
    /\ TermsAre(msg.objective, 10, -3)
    /\ msg.objective_offset = Int2Num(0)
    /\ msg.direction = "max"

\* the script was run to its last line, written without blanks, and the
\* backend was handed the objective with a before b
C19_Witness ==
  /\ ExampleMaximized
  /\ last.call = Objective(ExampleObjective, "tight")
  /\ Len(constraints) = 2
  /\ msg.objective = << [name |-> "a", factor |-> Int2Num(10)],
                        [name |-> "b", factor |-> Int2Num(-3)] >>

\* the last call, given a template, failed with a lexical error
LexicalError ==
  /\ TextCall
  /\ last.res.threw
  /\ last.res.err.kind = "lexical"

(***************************************************************************)
(* C20: every lexical error reports the offending character and its index  *)
(* in the literal segment being scanned.  When the segment holds a         *)
(* character the grammar does not recognize, with c the reported character *)
(* and i the reported index (from 0), the character at index i of the      *)
(* segment is c, and c is the first unrecognized character of the segment, *)
(* also when blanks stand before it at the start of the segment.           *)
(***************************************************************************)
C20_ErrorIndex ==
  LexicalError /\ Unrecognized(last.res.err.piece) =>
    /\ CharAt(last.res.err.piece, last.res.err.index + 1) = last.res.err.char
    /\ last.res.err.index + 1 = UnrecognizedAt(last.res.err.piece)

\* what the error does meet of C20: the reported character is the first
\* unrecognized one, and the reported index is where the scanner resumed,
\* which is the index of that character unless blanks stand before it
ErrorIndexAtResumption ==
  LexicalError /\ Unrecognized(last.res.err.piece) =>
    /\ last.res.err.char
         = last.res.err.piece[UnrecognizedAt(last.res.err.piece)]
    /\ last.res.err.index + 1
           + Run(last.res.err.piece, last.res.err.index + 1, WhiteSpace)
         = UnrecognizedAt(last.res.err.piece)
    /\ last.res.err.index > 0 =>
         last.res.err.index + 1 = UnrecognizedAt(last.res.err.piece)

(***************************************************************************)
(* The placeholder specification: the text specification with placeholders *)
(* of every kind.  The caller holds the Variable a and the Expression      *)
(* exp(5), and fills each placeholder of its template with the number 3,   *)
(* with a or with that Expression.                                         *)
(***************************************************************************)
\* what a placeholder can hold, e being the Expression the caller built
Holes(e) == {NumberOp(Int2Num(3)), VariableOp(1), ExpressionOp(e)}

\* the template written from the units us with the placeholder values ks
Filled(us, style, ks) == [Text(us, style) EXCEPT !.vars = ks]

InitHoles ==
  /\ variables = << [key |-> "a", v |-> 1] >>
  /\ constraints = <<>>
  /\ last = NoCall
  /\ msg = NoMsg
  /\ calls = 0
  /\ \E r \in {exp([EmptyHeap EXCEPT !.vars = << NewVariable("a", NoOptions) >>],
                   NumberOp(Int2Num(5)))} :
       /\ heap = r.h
       /\ held = << r.e >>
       /\ \E us \in UnitSeqs, style \in TextStyles :
            \E ks \in [1..Marks(Joined(us, Separator(style))) -> Holes(r.e)] :
              tpl = Filled(us, style, ks)

SpecHoles == InitHoles /\ [][NextText]_vars

\* the rendering of a placeholder: a number as its value, a Variable as its
\* name, an Expression as the generic marker
Rendering(x) ==
  IF x.t = "num" THEN NumberText(x.v)
  ELSE IF x.t = "var" THEN NameText(heap.vars[x.v].name)
  ELSE ExpMarker

\* every literal segment from the i-th on, each followed by the rendering
\* of the placeholder after it
RECURSIVE Substituted(_, _, _)
Substituted(strings, vars_, i) ==
  IF i > Len(strings) THEN <<>>
  ELSE strings[i]
         \o (IF i <= Len(vars_) THEN Rendering(vars_[i]) ELSE <<>>)
         \o Substituted(strings, vars_, i + 1)

\* the fully-substituted source of the template of the last call
Source == Substituted(last.call.strings, last.call.vars, 1)

(***************************************************************************)
(* C21: the fully-substituted source shown in a lexical error is the       *)
(* concatenation, in template order, of every literal segment followed by  *)
(* the rendering of the placeholder after it, so that no literal segment   *)
(* is missing from it; and the line "in the part" with the segment text is *)
(* in the message exactly when the segment differs from this source.       *)
(***************************************************************************)
C21_SubstitutedSource ==
  LexicalError =>
    /\ last.res.err.input = Source
    /\ last.res.err.part # <<>> <=> last.res.err.piece # Source

\* a literal segment with text in it stands before an Expression
SegmentBeforeExpression ==
  \E i \in 1..Len(last.call.vars) :
    last.call.vars[i].t = "exp" /\ last.call.strings[i] # <<>>

\* what the message does meet of C21: the source is complete unless text
\* stands before an Expression, and the line "in the part" is in the message
\* exactly when the segment differs from the source as shown
SourceUnlessBeforeExpression ==
  LexicalError =>
    /\ ~SegmentBeforeExpression => last.res.err.input = Source
    /\ last.res.err.part # <<>> <=> last.res.err.piece # last.res.err.input

(***************************************************************************)
(* The operand specification: the parse specification with placeholders of *)
(* every kind.  The caller holds the Variables a and b and the Expression  *)
(* exp(5), which has no entry, and writes one arithmetic template whose    *)
(* leaves are the literal 2, the number 3, a and that Expression.          *)
(***************************************************************************)
KindStyles == {"tight", "spaced"}

\* the leaves of a term, e being the Expression the caller built
KindLeaves(e) ==
  {Lit(<<"2">>), Ph(NumberOp(Int2Num(3))), Ph(VariableOp(1)),
   Ph(ExpressionOp(e))}

InitKinds ==
  /\ variables = << [key |-> "a", v |-> 1], [key |-> "b", v |-> 2] >>
  /\ constraints = <<>>
  /\ last = NoCall
  /\ msg = NoMsg
  /\ calls = 0
  /\ \E r \in {exp([EmptyHeap EXCEPT
                      !.vars = << NewVariable("a", NoOptions),
                                  NewVariable("b", NoOptions) >>],
                   NumberOp(Int2Num(5)))} :
       /\ heap = r.h
       /\ held = << r.e >>
       /\ \E n \in 0..MaxOps :
            \E sh \in Shapes(n), ops \in [1..n -> BinOps],
               lv \in [1..(n + 1) -> KindLeaves(r.e)], style \in KindStyles :
              tpl = Template(Fill(sh, ops, lv, 1, 1), style)

SpecKinds == InitKinds /\ [][NextParse]_vars

\* the term was supplied as a number: a numeric literal, a numeric
\* placeholder, or a sub-expression made only of those
RECURSIVE SuppliedAsNumber(_)
SuppliedAsNumber(t) ==
  IF t.kind = "lit" THEN TRUE
  ELSE IF t.kind = "ph" THEN t.operand.t = "num"
  ELSE SuppliedAsNumber(t.left) /\ SuppliedAsNumber(t.right)

\* the first operator of the term, operands taken left before right and
\* before their operator, that multiplies two operands not supplied as
\* numbers or divides by one, "none" if there is none
RECURSIVE FirstNonNumeric(_)
FirstNonNumeric(t) ==
  IF t.kind # "bin" THEN "none"
  ELSE IF FirstNonNumeric(t.left) # "none" THEN FirstNonNumeric(t.left)
  ELSE IF FirstNonNumeric(t.right) # "none" THEN FirstNonNumeric(t.right)
  ELSE IF t.op = "*" /\ ~SuppliedAsNumber(t.left) /\ ~SuppliedAsNumber(t.right)
  THEN "*"
  ELSE IF t.op = "/" /\ ~SuppliedAsNumber(t.right) THEN "/"
  ELSE "none"

(***************************************************************************)
(* C22: whether an operand of * and / counts as a number depends on how it *)
(* was supplied, not on its value.  Numeric literals, numeric placeholders *)
(* and sub-expressions made only of those are numbers and may multiply or  *)
(* divide an expression; a placeholder that is an Expression without       *)
(* entries, such as exp(5), a Variable, and a sub-expression whose         *)
(* variables cancel are not: a template fails with the linearity error of  *)
(* its first product of two such operands or quotient by one, and a        *)
(* template without any succeeds with the value ordinary arithmetic gives. *)
(***************************************************************************)
C22_NumberBySupply ==
  last.op = "template" =>
    /\ FirstNonNumeric(last.tpl.tree) # "none" =>
         /\ ~last.res.ok
         /\ last.res.err.kind = LinearityMessage(FirstNonNumeric(last.tpl.tree))
    /\ FirstNonNumeric(last.tpl.tree) = "none" =>
         /\ last.res.ok
         /\ Equivalent(heap, last.res.e, TreeValue(last.pre, last.tpl.tree))

\* exp(5), the constant 5 without entries, was the left operand of a product
\* with a, and the multiplication error was thrown
C22_Witness ==
  /\ last.op = "template"
  /\ last.tpl.tree = Bin("*", Ph(ExpressionOp(held[1])), Ph(VariableOp(1)))
  /\ Content(last.pre, held[1]) = [constant |-> Int2Num(5), entries |-> <<>>]
  /\ ~last.res.ok
  /\ last.res.err.kind = LinearityMessage("*")

====
